---- MODULE Spec2Model ----
(***************************************************************************)
(* Model of the 3x-ui panel client UIAPI (src/ui_api.py) and of the panel   *)
(* requests it issues.  Python values are tagged records, JSON text is a    *)
(* token sequence produced by Dumps and read back by the parser Loads, and  *)
(* every HTTP request of a call is one step whose outcome is drawn from the *)
(* response shapes panel forks produce.                                     *)
(***************************************************************************)
EXTENDS Integers, Sequences, FiniteSets, TLC

(***************************************************************************)
(* Bounds of the model.                                                     *)
(***************************************************************************)
MaxCalls == 1        \* API calls made in one behaviour
MaxClients == 3      \* clients the panel's inbound may hold
MaxPolls == 2        \* polls of one link resolution before its deadline

(***************************************************************************)
(* Numbers.  Python integers are unbounded; a byte count is kept as two     *)
(* limbs hi * 2^30 + lo so that ceilings of several GB stay exact.          *)
(***************************************************************************)
BYTES_IN_GB == 1024 * 1024 * 1024

Num(h, l) == [hi |-> h, lo |-> l]

NumAdd(a, b) ==
    LET s == a.lo + b.lo
    IN  Num(a.hi + b.hi + (s \div BYTES_IN_GB), s % BYTES_IN_GB)

\* int(g) * BYTES_IN_GB for a small integer g
NumTimesGB(g) == Num(g, 0)

NumIsZero(n) == n.hi = 0 /\ n.lo = 0

(***************************************************************************)
(* Python values.                                                           *)
(***************************************************************************)
PyNone == [t |-> "null"]
PyBool(b) == [t |-> "bool", b |-> b]
PyInt(n) == [t |-> "int", n |-> n]
PyStr(s) == [t |-> "str", s |-> s]
PyList(xs) == [t |-> "list", xs |-> xs]
PyDict(f) == [t |-> "obj", f |-> f]

I(k) == PyInt(Num(0, k))
EmptyDict == PyDict(<<>>)
EmptyList == PyList(<<>>)

(***************************************************************************)
(* JSON text: a sequence of tokens.  A word token is text that is not JSON  *)
(* (a login such as alice, an HTML error page).                             *)
(***************************************************************************)
TInt(n) == [k |-> "int", n |-> n]
TStr(s) == [k |-> "str", s |-> s]
TWord(w) == [k |-> "word", w |-> w]
TP(c) == [k |-> c]

\* a Python string holding plain, non-JSON text
S(w) == PyStr(<<TWord(w)>>)

isinstance(v, ty) == v.t = ty

\* Python truthiness, as used by `or`, `not` and `if`
Truthy(v) ==
    CASE v.t = "null" -> FALSE
      [] v.t = "bool" -> v.b
      [] v.t = "int"  -> ~NumIsZero(v.n)
      [] v.t = "str"  -> v.s # <<>>
      [] v.t = "list" -> v.xs # <<>>
      [] v.t = "obj"  -> DOMAIN v.f # {}

\* a or b
Or(a, b) == IF Truthy(a) THEN a ELSE b

\* d.get(key) of a dict
Get(d, key) == IF key \in DOMAIN d.f THEN d.f[key] ELSE PyNone

\* d.get(key, default) of a dict
GetDefault(d, key, default) == IF key \in DOMAIN d.f THEN d.f[key] ELSE default

\* d[key] = v on a copy of d
SetItem(d, key, v) ==
    PyDict([x \in DOMAIN d.f \cup {key} |-> IF x = key THEN v ELSE d.f[x]])

\* str(v)
str(v) ==
    CASE v.t = "str"  -> v.s
      [] v.t = "int"  -> <<TInt(v.n)>>
      [] v.t = "null" -> <<TWord("None")>>
      [] v.t = "bool" -> <<TWord(IF v.b THEN "True" ELSE "False")>>
      [] OTHER        -> <<TWord("repr")>>

(***************************************************************************)
(* json.dumps(v, separators=(",", ":")).  A dict is written key by key in   *)
(* one fixed order of its key set (a dict keeps its insertion order;        *)
(* equality of dicts ignores it).                                           *)
(***************************************************************************)
RECURSIVE KeysOf(_)
KeysOf(keys) ==
    IF keys = {} THEN <<>>
    ELSE LET key == CHOOSE x \in keys : TRUE
         IN  <<key>> \o KeysOf(keys \ {key})

RECURSIVE Dumps(_), DumpsItems(_), DumpsMembers(_, _)

Dumps(v) ==
    CASE v.t = "null" -> <<TP("null")>>
      [] v.t = "bool" -> <<TP(IF v.b THEN "true" ELSE "false")>>
      [] v.t = "int"  -> <<TInt(v.n)>>
      [] v.t = "str"  -> <<TStr(v.s)>>
      [] v.t = "list" -> <<TP("[")>> \o DumpsItems(v.xs) \o <<TP("]")>>
      [] v.t = "obj"  ->
            <<TP("{")>>
            \o DumpsMembers(v.f, KeysOf(DOMAIN v.f))
            \o <<TP("}")>>

DumpsItems(xs) ==
    IF xs = <<>> THEN <<>>
    ELSE IF Len(xs) = 1 THEN Dumps(xs[1])
    ELSE Dumps(xs[1]) \o <<TP(",")>> \o DumpsItems(Tail(xs))

DumpsMembers(f, keys) ==
    IF keys = <<>> THEN <<>>
    ELSE LET m == <<TStr(<<TWord(keys[1])>>), TP(":")>> \o Dumps(f[keys[1]])
         IN  IF Len(keys) = 1 THEN m
             ELSE m \o <<TP(",")>> \o DumpsMembers(f, Tail(keys))

\* json.dumps(v) as a Python string
json_dumps(v) == PyStr(Dumps(v))

(***************************************************************************)
(* json.loads: a recursive-descent parser over the tokens.  A parse result  *)
(* is [ok, v, rest]; loads raises unless one value spans the whole text.    *)
(***************************************************************************)
ParseFail == [ok |-> FALSE, v |-> PyNone, rest |-> <<>>]
ParseOk(v, rest) == [ok |-> TRUE, v |-> v, rest |-> rest]

RECURSIVE ParseValue(_), ParseItems(_, _), ParseMembers(_, _)

ParseValue(ts) ==
    IF ts = <<>> THEN ParseFail
    ELSE LET tok == Head(ts)
             rest == Tail(ts)
         IN  CASE tok.k = "int"   -> ParseOk(PyInt(tok.n), rest)
               [] tok.k = "str"   -> ParseOk(PyStr(tok.s), rest)
               [] tok.k = "null"  -> ParseOk(PyNone, rest)
               [] tok.k = "true"  -> ParseOk(PyBool(TRUE), rest)
               [] tok.k = "false" -> ParseOk(PyBool(FALSE), rest)
               [] tok.k = "["     ->
                     IF rest # <<>> /\ Head(rest).k = "]"
                     THEN ParseOk(EmptyList, Tail(rest))
                     ELSE ParseItems(rest, <<>>)
               [] tok.k = "{"     ->
                     IF rest # <<>> /\ Head(rest).k = "}"
                     THEN ParseOk(EmptyDict, Tail(rest))
                     ELSE ParseMembers(rest, <<>>)
               [] OTHER           -> ParseFail

ParseItems(ts, acc) ==
    \* after "[" or ",": one value r, then "," or "]"
    LET ParseItemsNext(r, acc_) ==
            IF ~r.ok \/ r.rest = <<>> THEN ParseFail
            ELSE IF Head(r.rest).k = "]"
                 THEN ParseOk(PyList(Append(acc_, r.v)), Tail(r.rest))
            ELSE IF Head(r.rest).k = ","
                 THEN ParseItems(Tail(r.rest), Append(acc_, r.v))
            ELSE ParseFail
    IN  ParseItemsNext(ParseValue(ts), acc)

ParseMembers(ts, acc) ==
    \* after "{" or ",": key, ":", value r, then "," or "}"
    LET ParseMembersNext(r, acc2) ==
            IF ~r.ok \/ r.rest = <<>> THEN ParseFail
            ELSE IF Head(r.rest).k = "}"
                 THEN ParseOk(PyDict(acc2), Tail(r.rest))
            ELSE IF Head(r.rest).k = ","
                 THEN ParseMembers(Tail(r.rest), acc2)
            ELSE ParseFail
        ParseMembersPut(acc_, key, r) ==
            ParseMembersNext(r, [x \in DOMAIN acc_ \cup {key} |-> IF x = key THEN r.v ELSE acc_[x]])
    IN  IF Len(ts) < 3 \/ ~(ts[1].k = "str" /\ Len(ts[1].s) = 1 /\ ts[1].s[1].k = "word") \/ ts[2].k # ":" THEN ParseFail
        ELSE ParseMembersPut(acc, ts[1].s[1].w, ParseValue(Tail(Tail(ts))))

json_loads(s) ==
    \* json.loads(s) of a Python string s: [ok |-> FALSE] stands for the raise
    LET LoadsWhole(r) ==
            IF r.ok /\ r.rest = <<>> THEN [ok |-> TRUE, v |-> r.v]
            ELSE [ok |-> FALSE, v |-> PyNone]
    IN  LoadsWhole(ParseValue(s.s))

(***************************************************************************)
(* A call either returns a value or raises.                                 *)
(***************************************************************************)
Return(v) == [exc |-> "none", v |-> v]
Raise(e) == [exc |-> e, v |-> PyNone]
RaiseWith(e, v) == [exc |-> e, v |-> v]

(***************************************************************************)
(* The panel.  It holds each inbound's fields, the non-clients keys of its  *)
(* settings and the client list, and serves settings either as a JSON       *)
(* string or as an object (wire), depending on the fork.                    *)
(***************************************************************************)
Merge(f, g) == [x \in DOMAIN f \cup DOMAIN g |-> IF x \in DOMAIN f THEN f[x] ELSE g[x]]

Without(f, key) == [x \in DOMAIN f \ {key} |-> f[x]]

SettingsOf(ib) == PyDict(Merge([clients |-> PyList(ib.clients)], ib.srest))

\* the inbound as the panel serialises it in a response
InboundWire(ib) ==
    PyDict(Merge([settings |-> IF ib.wire = "str" THEN json_dumps(SettingsOf(ib))
                                                     ELSE SettingsOf(ib)],
                 ib.f))

RECURSIVE WireList(_)
WireList(ibs) ==
    IF ibs = <<>> THEN <<>> ELSE <<InboundWire(Head(ibs))>> \o WireList(Tail(ibs))

\* index of the panel's inbound with the given id, 0 if there is none
PanelIndex(p, id) ==
    LET hits == {i \in 1..Len(p) : str(p[i].f["id"]) = str(id)}
    IN  IF hits = {} THEN 0 ELSE CHOOSE i \in hits : \A j \in hits : i <= j

Envelope(ok, obj) == PyDict([success |-> PyBool(ok), obj |-> obj])
Rejected == PyDict([success |-> PyBool(FALSE), msg |-> S("error")])
HttpError == [err |-> TRUE, body |-> <<>>]
HttpBody(v) == [err |-> FALSE, body |-> Dumps(v)]
\* POST {secret}/panel/inbound/list
ListShapes == {"neterr", "envelope", "bare", "rejected", "nonjson", "nullobj",
               "failobj", "objdict", "text"}

ListResponse(shape, p) ==
    CASE shape = "neterr"   -> HttpError
      [] shape = "envelope" -> HttpBody(Envelope(TRUE, PyList(WireList(p))))
      [] shape = "bare"     -> HttpBody(PyList(WireList(p)))
      [] shape = "rejected" -> HttpBody(Rejected)
      [] shape = "nonjson"  -> [err |-> FALSE, body |-> <<TWord("<html>")>>]
      [] shape = "nullobj"  -> HttpBody(Envelope(TRUE, PyNone))
      [] shape = "failobj"  -> HttpBody(Envelope(FALSE, PyList(WireList(p))))
      [] shape = "objdict"  -> HttpBody(Envelope(TRUE, Rejected))
      [] shape = "text"     -> HttpBody(S("unauthorized"))

GetResponse(shape, p, id) ==
    LET GetResponseFor(shape_, ib) ==
            CASE shape_ = "neterr"   -> HttpError
              [] shape_ = "envelope" -> HttpBody(IF ib = PyNone THEN Rejected ELSE Envelope(TRUE, ib))
              [] shape_ = "bare"     -> HttpBody(IF ib = PyNone THEN EmptyDict ELSE ib)
              [] shape_ = "rejected" -> HttpBody(Rejected)
              [] shape_ = "empty"    -> HttpBody(EmptyDict)
              [] shape_ = "null"     -> HttpBody(PyNone)
        GetResponseAt(shape_, p_, i) ==
            GetResponseFor(shape_, IF i = 0 THEN PyNone ELSE InboundWire(p_[i]))
    IN  GetResponseAt(shape, p, PanelIndex(p, id))

(***************************************************************************)
(* UIAPI._request: raise_for_status, then resp.json(), else the raw text.   *)
(***************************************************************************)

request(resp) ==
    \* resp.json() gave r, or raised (line 73) and the text is wrapped
    LET request_json(resp_, r) ==
            IF r.ok THEN Return(r.v)
            ELSE Return(PyDict([raw |-> PyStr(resp_.body), ok |-> PyBool(TRUE)]))
    IN  IF resp.err THEN Raise("Transport")
        ELSE request_json(resp, json_loads(PyStr(resp.body)))

(***************************************************************************)
(* UIAPI.get_inbounds_list, applied to the outcome r of its list request.   *)
(***************************************************************************)
get_inbounds_list(r) ==
    IF r.exc # "none" THEN r
    ELSE LET res == r.v
         IN  IF isinstance(res, "obj") /\ Get(res, "success") = PyBool(TRUE)
             THEN LET obj == Or(Get(res, "obj"), EmptyList)
                  IN  Return(IF isinstance(obj, "list") THEN obj ELSE EmptyList)
             ELSE IF ~isinstance(res, "obj")
                  THEN Raise("AttributeError")
                  ELSE Return(Or(Get(res, "obj"), EmptyList))

(***************************************************************************)
(* UIAPI.get_inbound, first tier: the loop over get_inbounds_list().  The   *)
(* result is Return(ib) on a match, Return(None) when the loop ends without *)
(* one, or the exception the iteration raises.                              *)
(***************************************************************************)
RECURSIVE ScanInbounds(_, _)
ScanInbounds(xs, inbound_id) ==
    IF xs = <<>> THEN Return(PyNone)
    ELSE IF ~isinstance(Head(xs), "obj") THEN Raise("AttributeError")
    ELSE IF str(Get(Head(xs), "id")) = str(inbound_id) THEN Return(Head(xs))
    ELSE ScanInbounds(Tail(xs), inbound_id)

\* a lookup that never takes an inbound from the list
get_inbound_fast_skipping(l, inbound_id) ==
    IF l.exc # "none" THEN l
    ELSE CASE isinstance(l.v, "list") -> Return(PyNone)
           [] isinstance(l.v, "obj")  -> Raise("AttributeError")
           [] isinstance(l.v, "str")  -> Raise("AttributeError")
           [] OTHER                   -> Raise("TypeError")

get_inbound_fast(l, inbound_id) ==
    IF l.exc # "none" THEN l
    ELSE CASE isinstance(l.v, "list") -> ScanInbounds(l.v.xs, inbound_id)
           [] isinstance(l.v, "obj")  -> Raise("AttributeError")
           [] isinstance(l.v, "str")  -> Raise("AttributeError")
           [] OTHER                   -> Raise("TypeError")

(***************************************************************************)
(* UIAPI.get_inbound, second tier: one direct GET.  Return(None) means      *)
(* "try the next variant".                                                  *)
(***************************************************************************)
\* variant: no try/except around the request
get_inbound_direct_unguarded(r) ==
    IF r.exc # "none" THEN r
    ELSE IF ~isinstance(r.v, "obj") THEN Return(PyNone)
    ELSE LET res == r.v
             inb == Or(Or(Or(Get(res, "obj"), Get(res, "data")), Get(res, "inbound")), res)
         IN  IF isinstance(inb, "obj") /\ Truthy(inb) THEN Return(inb)
             ELSE Return(PyNone)

get_inbound_direct(r) ==
    IF r.exc # "none" THEN Return(PyNone)
    ELSE IF ~isinstance(r.v, "obj") THEN Return(PyNone)
    ELSE LET res == r.v
             inb == Or(Or(Or(Get(res, "obj"), Get(res, "data")), Get(res, "inbound")), res)
         IN  IF isinstance(inb, "obj") /\ Truthy(inb) THEN Return(inb)
             ELSE Return(PyNone)

(***************************************************************************)
(* UIAPI.get_clients_list, applied to the outcome g of get_inbound.         *)
(***************************************************************************)

get_clients_list(g) ==
    \* settings.get("clients") or [] (line 157)
    LET clients_of(parsed) ==
            IF ~isinstance(parsed, "obj") THEN Raise("AttributeError")
            ELSE Return(Or(Get(parsed, "clients"), EmptyList))
        \* json.loads inside try/except: {} when it raises (lines 153-156)
        loads_or_empty(r) == IF r.ok THEN r.v ELSE EmptyDict
        settings_of(settings_raw) ==
            IF isinstance(settings_raw, "str")
            THEN clients_of(loads_or_empty(json_loads(settings_raw)))
            ELSE clients_of(Or(settings_raw, EmptyDict))
    IN  IF g.exc # "none" THEN g
        ELSE IF ~Truthy(g.v) THEN Return(EmptyList)
        ELSE settings_of(Get(g.v, "settings"))

(***************************************************************************)
(* UIAPI._safe_json_load: json.loads while the value is a string, at most   *)
(* three times; anything but a dict becomes {}.                             *)
(***************************************************************************)
RECURSIVE safe_json_loop(_, _)

safe_json_loop(parsed, n) ==
    LET safe_json_step(parsed_, r, n_) ==
            IF r.ok THEN safe_json_loop(r.v, n_ - 1) ELSE parsed_
    IN  IF n = 0 \/ ~isinstance(parsed, "str") THEN parsed
        ELSE safe_json_step(parsed, json_loads(parsed), n)

\* variant: two levels at most
safe_json_load_twice(obj) ==
    LET dict_or_empty(parsed) == IF isinstance(parsed, "obj") THEN parsed ELSE EmptyDict
    IN  dict_or_empty(safe_json_loop(obj, 2))

safe_json_load(obj) ==
    LET dict_or_empty(parsed) == IF isinstance(parsed, "obj") THEN parsed ELSE EmptyDict
    IN  dict_or_empty(safe_json_loop(obj, 3))

(***************************************************************************)
(* int(v) of the values a client field holds.                               *)
(***************************************************************************)
int(v) ==
    CASE v.t = "int"  -> Return(v)
      [] v.t = "bool" -> Return(I(IF v.b THEN 1 ELSE 0))
      [] v.t = "str"  -> IF Len(v.s) = 1 /\ v.s[1].k = "int"
                         THEN Return(PyInt(v.s[1].n)) ELSE Raise("ValueError")
      [] OTHER        -> Raise("TypeError")

(***************************************************************************)
(* add_traffic / update_client: settings -> clients (lines 308-309 and      *)
(* 366-371).                                                                *)
(***************************************************************************)

decode_settings(inbound) ==
    LET settings_dict(settings) ==
            IF settings.exc # "none" THEN settings
            ELSE IF ~isinstance(settings.v, "obj") THEN Raise("AttributeError")
            ELSE settings
        loads_or_raise(r) == IF r.ok THEN Return(r.v) ELSE Raise("JSONDecodeError")
        decode_raw(raw) ==
            IF isinstance(raw, "str") THEN settings_dict(loads_or_raise(json_loads(raw)))
            ELSE IF isinstance(raw, "obj") THEN Return(raw)
            ELSE IF raw = EmptyList THEN Return(EmptyDict)
            ELSE Raise("TypeError")
    IN  IF "settings" \notin DOMAIN inbound.f THEN Raise("KeyError")
        ELSE decode_raw(inbound.f["settings"])

\* index of the first client c with c.get("email") == email, 0 if none
RECURSIVE FirstMatch(_, _, _)
FirstMatch(xs, email, i) ==
    IF i > Len(xs) THEN 0
    ELSE IF isinstance(xs[i], "obj") /\ Get(xs[i], "email") = email THEN i
    ELSE FirstMatch(xs, email, i + 1)

\* variant: every client with the email of the one at i is replaced
ReplaceAtEvery(xs, i, v) ==
    [j \in 1..Len(xs) |-> IF Get(xs[j], "email") = Get(xs[i], "email") THEN v ELSE xs[j]]

ReplaceAt(xs, i, v) == [j \in 1..Len(xs) |-> IF j = i THEN v ELSE xs[j]]

\* the full update payload built from the inbound (lines 327-337, 391-401)
build_payload(inbound, inbound_id) ==
    PyDict([ id             |-> inbound_id,
             remark         |-> GetDefault(inbound, "remark", PyStr(<<>>)),
             port           |-> Get(inbound, "port"),
             protocol       |-> Get(inbound, "protocol"),
             settings       |-> inbound.f["settings"],
             streamSettings |-> Get(inbound, "streamSettings"),
             sniffing       |-> Get(inbound, "sniffing"),
             enable         |-> GetDefault(inbound, "enable", PyBool(TRUE)),
             tag            |-> Get(inbound, "tag") ])

\* variant: only the clients key is written back
encode_settings_clients_only(inbound, settings, clients) ==
    SetItem(inbound, "settings", json_dumps(PyDict([clients |-> PyList(clients)])))

\* settings["clients"] = clients; inbound["settings"] = json.dumps(settings)
encode_settings(inbound, settings, clients) ==
    SetItem(inbound, "settings", json_dumps(SetItem(settings, "clients", PyList(clients))))

\* variant: the unlimited check is missing
is_unlimited_never(current_limit) == FALSE

\* current_limit == 0 (line 316)
is_unlimited(current_limit) == NumIsZero(current_limit)

\* variant: add_gb is added as bytes, without BYTES_IN_GB
new_limit_bytes(current_limit, add_gb) == NumAdd(current_limit, Num(0, add_gb))

\* the new ceiling of add_traffic (line 318)
new_limit(current_limit, add_gb) == NumAdd(current_limit, NumTimesGB(add_gb))

(***************************************************************************)
(* UIAPI.add_traffic up to its update request (lines 304-337): the result   *)
(* is an exception or the payload to post.                                  *)
(***************************************************************************)
Plan(e, inbound, clients, payload) ==
    [exc |-> e, inbound |-> inbound, clients |-> clients, payload |-> payload]
PlanRaise(e) == Plan(e, EmptyDict, <<>>, EmptyDict)

\* lines 324-337: the changed client list goes into settings and the payload
write_back(inbound, settings, clients, inbound_id) ==
    Plan("none", inbound, clients,
         build_payload(encode_settings(inbound, settings, clients), inbound_id))

add_traffic_plan(g, inbound_id, email, add_gb) ==
    \* lines 315-318, with cur = int(c.get("totalGB", 0) or 0) of the client at i
    LET raise_limit(inbound, settings, xs, i, cur, inbound_id_, add_gb_) ==
            IF cur.exc # "none" THEN PlanRaise(cur.exc)
            ELSE IF is_unlimited(cur.v.n) THEN PlanRaise("Unlimited")
            ELSE write_back(inbound, settings,
                            ReplaceAt(xs, i, SetItem(xs[i], "totalGB",
                                                     PyInt(new_limit(cur.v.n, add_gb_)))),
                            inbound_id_)
        \* lines 313-322, with i the index of the first client with the email
        add_traffic_at(inbound, settings, xs, i, inbound_id_, add_gb_) ==
            IF i = 0 THEN PlanRaise("ClientNotFound")
            ELSE raise_limit(inbound, settings, xs, i,
                             int(Or(Get(xs[i], "totalGB"), I(0))), inbound_id_, add_gb_)
        add_traffic_clients(inbound, settings, cl, inbound_id_, email_, add_gb_) ==
            IF ~isinstance(cl, "list") THEN PlanRaise("TypeError")
            ELSE add_traffic_at(inbound, settings, cl.xs, FirstMatch(cl.xs, email_, 1),
                                inbound_id_, add_gb_)
        add_traffic_settings(inbound, st, inbound_id_, email_, add_gb_) ==
            IF st.exc # "none" THEN PlanRaise(st.exc)
            ELSE add_traffic_clients(inbound, st.v, GetDefault(st.v, "clients", EmptyList),
                                     inbound_id_, email_, add_gb_)
    IN  IF g.exc # "none" THEN PlanRaise(g.exc)
        ELSE IF ~Truthy(g.v) THEN PlanRaise("InboundNotFound")
        ELSE add_traffic_settings(g.v, decode_settings(g.v), inbound_id, email, add_gb)

(***************************************************************************)
(* UIAPI.update_client up to its update request (lines 361-401).            *)
(* expiry_time_ms is None or an integer.                                    *)
(***************************************************************************)

update_client_plan(g, inbound_id, email, total_gb, expiry_time_ms) ==
    \* lines 379-381: expiryTime is set only when expiry_time_ms is not None
    LET set_expiry(c1, expiry_time_ms_) ==
            IF expiry_time_ms_ # PyNone THEN SetItem(c1, "expiryTime", expiry_time_ms_) ELSE c1
        update_client_at(inbound, settings, xs, i, inbound_id_, total_gb_, expiry_time_ms_) ==
            IF i = 0 THEN PlanRaise("ClientNotFound")
            ELSE write_back(inbound, settings,
                            ReplaceAt(xs, i,
                                      set_expiry(SetItem(xs[i], "totalGB", PyInt(NumTimesGB(total_gb_))),
                                                 expiry_time_ms_)),
                            inbound_id_)
        update_client_clients(inbound, settings, cl, inbound_id_, email_, total_gb_, expiry_time_ms_) ==
            IF ~isinstance(cl, "list") THEN PlanRaise("TypeError")
            ELSE update_client_at(inbound, settings, cl.xs, FirstMatch(cl.xs, email_, 1),
                                  inbound_id_, total_gb_, expiry_time_ms_)
        update_client_settings(inbound, st, inbound_id_, email_, total_gb_, expiry_time_ms_) ==
            IF st.exc # "none" THEN PlanRaise(st.exc)
            ELSE update_client_clients(inbound, st.v, GetDefault(st.v, "clients", EmptyList),
                                       inbound_id_, email_, total_gb_, expiry_time_ms_)
    IN  IF g.exc # "none" THEN PlanRaise(g.exc)
        ELSE IF ~Truthy(g.v) THEN PlanRaise("InboundNotFound")
        ELSE update_client_settings(g.v, decode_settings(g.v), inbound_id, email,
                                    total_gb, expiry_time_ms)

(***************************************************************************)
(* UIAPI.add_client: the client object and the create payload (258-273),    *)
(* the four paths (276-281) and the body sent to each (287).                *)
(***************************************************************************)
client_obj(uuid, email, limit_ip, total_gb, expiry_time_ms, flow) ==
    LET base == [ id         |-> uuid,
                  email      |-> email,
                  limitIp    |-> IF limit_ip # 0 THEN I(limit_ip) ELSE I(0),
                  totalGB    |-> IF total_gb # 0 THEN PyInt(NumTimesGB(total_gb)) ELSE I(0),
                  expiryTime |-> IF Truthy(expiry_time_ms) THEN expiry_time_ms ELSE I(0) ]
    IN  PyDict(IF Truthy(flow) THEN Merge([flow |-> flow], base) ELSE base)

create_payload(inbound_id, c) ==
    PyDict([ id       |-> inbound_id,
             settings |-> json_dumps(PyDict([clients |-> PyList(<<c>>)])) ])

paths == << "panel/inbound/addClient", "panel/inbound/addClient/{id}",
            "xui/inbound/addClient", "inbound/addClient" >>

create_body(pathIndex, payload) ==
    IF pathIndex # 2 THEN payload
    ELSE PyDict([settings |-> payload.f["settings"]])

\* variant: a reported success does not end the loop
create_attempt_nobreak(r) ==
    IF r.exc # "none"
    THEN [ok |-> FALSE,
          last_res |-> PyDict([success |-> PyBool(FALSE), msg |-> S(r.exc)])]
    ELSE [ok |-> FALSE, last_res |-> r.v]

\* one iteration of the loop over paths, given the outcome r of its _post:
\* last_res and ok after it (lines 288-294)
create_attempt(r) ==
    IF r.exc # "none"
    THEN [ok |-> FALSE,
          last_res |-> PyDict([success |-> PyBool(FALSE), msg |-> S(r.exc)])]
    ELSE [ok |-> isinstance(r.v, "obj") /\ Get(r.v, "success") = PyBool(TRUE),
          last_res |-> r.v]

(***************************************************************************)
(* What the panel does with a write.  An update replaces the inbound by the *)
(* payload it receives; a create appends the clients of the payload.        *)
(***************************************************************************)

PayloadSettings(payload) ==
    LET SettingsWithClients(r) ==
            IF r.ok /\ isinstance(r.v, "obj") /\ "clients" \in DOMAIN r.v.f
                    /\ isinstance(r.v.f["clients"], "list")
            THEN r.v ELSE PyNone
    IN  IF "settings" \in DOMAIN payload.f /\ isinstance(payload.f["settings"], "str")
        THEN SettingsWithClients(json_loads(payload.f["settings"]))
        ELSE PyNone

PanelCanUpdate(p, id, payload) ==
    PanelIndex(p, id) # 0 /\ PayloadSettings(payload) # PyNone

PanelUpdate(p, id, payload) ==
    LET PanelUpdateAt(p_, i, payload_, st) ==
            [p_ EXCEPT ![i] = [ f       |-> Without(payload_.f, "settings"),
                               srest   |-> Without(st.f, "clients"),
                               clients |-> st.f["clients"].xs,
                               wire    |-> p_[i].wire ]]
    IN  PanelUpdateAt(p, PanelIndex(p, id), payload, PayloadSettings(payload))

PanelCanAddClient(p, id, body) ==
    LET PanelCanAddClientAt(p_, i, st) ==
            /\ i # 0
            /\ st # PyNone
            /\ Len(p_[i].clients) + Len(st.f["clients"].xs) <= MaxClients
    IN  PanelCanAddClientAt(p, PanelIndex(p, id), PayloadSettings(body))

PanelAddClient(p, id, body) ==
    LET PanelAddClientAt(p_, i, st) == [p_ EXCEPT ![i].clients = @ \o st.f["clients"].xs]
    IN  PanelAddClientAt(p, PanelIndex(p, id), PayloadSettings(body))

\* responses to POST .../update/{id} and POST .../addClient: "lost" is a
\* write the panel applied whose response never arrived
WriteShapes == {"neterr", "lost", "ok", "rejected", "text"}

WriteApplied(shape) == shape \in {"ok", "lost"}

WriteResponse(shape) ==
    CASE shape = "neterr"   -> HttpError
      [] shape = "lost"     -> HttpError
      [] shape = "ok"       -> HttpBody(PyDict([success |-> PyBool(TRUE)]))
      [] shape = "rejected" -> HttpBody(Rejected)
      [] shape = "text"     -> HttpBody(S("unauthorized"))

(***************************************************************************)
(* UIAPI.try_get_client_vless_link: one iteration of the polling loop,      *)
(* given the outcome g of its get_inbound (lines 172-225).                  *)
(***************************************************************************)
\* s.strip().lower() and s.strip() of a text, on the spellings in use
strip_lower(ts) ==
    LET StripLowerWord(w) ==
            CASE w = "Alice " -> "alice"
              [] w = " bob"   -> "bob"
              [] w = "ALICE"  -> "alice"
              [] w = " Bob "  -> "bob"
              [] OTHER        -> w
    IN  [i \in 1..Len(ts) |-> IF ts[i].k = "word" THEN TWord(StripLowerWord(ts[i].w)) ELSE ts[i]]

strip(ts) ==
    LET StripWord(w) ==
            CASE w = "Alice " -> "Alice"
              [] w = " bob"   -> "bob"
              [] w = " Bob "  -> "Bob"
              [] OTHER        -> w
    IN  [i \in 1..Len(ts) |-> IF ts[i].k = "word" THEN TWord(StripWord(ts[i].w)) ELSE ts[i]]

\* variant: the stored email is compared as it is stored
FirstMatchUnfolded(xs, target, i) ==
    LET hits == { j \in i..Len(xs) :
                    /\ isinstance(xs[j], "obj")
                    /\ isinstance(Or(Get(xs[j], "email"), PyStr(<<>>)), "str")
                    /\ Or(Get(xs[j], "email"), PyStr(<<>>)).s = target }
    IN  IF hits = {} THEN 0 ELSE CHOOSE j \in hits : \A h \in hits : j <= h

\* index of the first client whose email, trimmed and lowered, is target
RECURSIVE FirstMatchFolded(_, _, _)
FirstMatchFolded(xs, target, i) ==
    IF i > Len(xs) THEN 0
    ELSE IF /\ isinstance(xs[i], "obj")
            /\ isinstance(Or(Get(xs[i], "email"), PyStr(<<>>)), "str")
            /\ strip_lower(Or(Get(xs[i], "email"), PyStr(<<>>)).s) = target
         THEN i
    ELSE FirstMatchFolded(xs, target, i + 1)

\* UIAPI._resolve_server_host: the hostname of the panel's own base URL
Host == <<TWord("panel.host")>>

RECURSIVE Join(_, _)
Join(parts, sep) ==
    IF parts = <<>> THEN <<>>
    ELSE IF Len(parts) = 1 THEN parts[1]
    ELSE parts[1] \o sep \o Join(Tail(parts), sep)

W(w) == <<TWord(w)>>

\* the URI for a matched client (lines 186-225); None without identifier
first_or(v, default) ==
    IF isinstance(v, "list") /\ Truthy(v) THEN v.xs[1] ELSE default

link_tag(remark, email) ==
    IF remark = <<>> THEN email.s ELSE remark \o W("-") \o email.s

\* variant: sni is written before fp
link_text_reordered(uuid_val, port, public_key, fp, sni, short_id, flow, tag) ==
    IF ~Truthy(uuid_val) THEN PyNone
    ELSE PyStr(W("vless://") \o str(uuid_val) \o W("@") \o Host \o W(":") \o str(port)
               \o W("?")
               \o Join(<< W("type=tcp"),
                          W("security=reality"),
                          W("pbk=") \o str(public_key),
                          W("sni=") \o str(sni),
                          W("fp=") \o str(fp),
                          W("sid=") \o str(short_id),
                          W("spx=%2F"),
                          W("flow=") \o flow >>, W("&"))
               \o W("#") \o tag)

link_text(uuid_val, port, public_key, fp, sni, short_id, flow, tag) ==
    IF ~Truthy(uuid_val) THEN PyNone
    ELSE PyStr(W("vless://") \o str(uuid_val) \o W("@") \o Host \o W(":") \o str(port)
               \o W("?")
               \o Join(<< W("type=tcp"),
                          W("security=reality"),
                          W("pbk=") \o str(public_key),
                          W("fp=") \o str(fp),
                          W("sni=") \o str(sni),
                          W("sid=") \o str(short_id),
                          W("spx=%2F"),
                          W("flow=") \o flow >>, W("&"))
               \o W("#") \o tag)

\* variant: the fallbacks are tried first
link_reality_swapped(inbound, client, email, rs, tls, settings_inner) ==
    link_text(Or(Get(client, "password"), Get(client, "id")),
              Or(Get(inbound, "port"), PyStr(<<>>)),
              Or(Or(Get(settings_inner, "publicKey"), Get(rs, "publicKey")), PyStr(<<>>)),
              Or(Or(Get(rs, "fingerprint"), Get(tls, "fingerprint")), S("chrome")),
              first_or(Or(Get(rs, "serverNames"), PyList(<<PyStr(Host)>>)), PyStr(Host)),
              first_or(Or(Get(rs, "shortIds"), EmptyList), PyStr(<<>>)),
              strip(str(Or(Get(client, "flow"), S("xtls-rprx-vision")))),
              link_tag(strip(str(Or(Get(inbound, "remark"), PyStr(<<>>)))), email))

link_reality(inbound, client, email, rs, tls, settings_inner) ==
    link_text(Or(Get(client, "id"), Get(client, "password")),
              Or(Get(inbound, "port"), PyStr(<<>>)),
              Or(Or(Get(rs, "publicKey"), Get(settings_inner, "publicKey")), PyStr(<<>>)),
              Or(Or(Get(tls, "fingerprint"), Get(rs, "fingerprint")), S("chrome")),
              first_or(Or(Get(rs, "serverNames"), PyList(<<PyStr(Host)>>)), PyStr(Host)),
              first_or(Or(Get(rs, "shortIds"), EmptyList), PyStr(<<>>)),
              strip(str(Or(Get(client, "flow"), S("xtls-rprx-vision")))),
              link_tag(strip(str(Or(Get(inbound, "remark"), PyStr(<<>>)))), email))

vless_link(inbound, client, email) ==
    LET link_stream_rs(inbound_, client_, email_, rs, tls) ==
            link_reality(inbound_, client_, email_, rs, tls,
                         safe_json_load(Or(Get(rs, "settings"), EmptyDict)))
        link_stream(inbound_, client_, email_, ss) ==
            link_stream_rs(inbound_, client_, email_,
                           safe_json_load(Or(Get(ss, "realitySettings"), EmptyDict)),
                           safe_json_load(Or(Get(ss, "tlsSettings"), EmptyDict)))
    IN  link_stream(inbound, client, email,
                    safe_json_load(Or(Get(inbound, "streamSettings"), EmptyDict)))

\* variant: a matched client without identifier is polled for again
poll_once_retrying(g, email) ==
    LET poll_client(inbound, xs, i, email_) ==
            IF i = 0 \/ ~Truthy(xs[i]) \/ ~Truthy(vless_link(inbound, xs[i], email_))
            THEN [k |-> "retry", exc |-> "none", v |-> PyNone]
            ELSE [k |-> "done", exc |-> "none", v |-> vless_link(inbound, xs[i], email_)]
        poll_clients(inbound, clients, email_) ==
            IF ~isinstance(clients, "list")
            THEN [k |-> "raise", exc |-> "AttributeError", v |-> PyNone]
            ELSE poll_client(inbound, clients.xs,
                             FirstMatchFolded(clients.xs, strip_lower(Or(email_, PyStr(<<>>)).s), 1),
                             email_)
        poll_settings(inbound, settings, email_) ==
            poll_clients(inbound,
                         Or(Or(Get(settings, "clients"), Get(inbound, "clients")), EmptyList),
                         email_)
    IN  IF g.exc # "none" THEN [k |-> "raise", exc |-> g.exc, v |-> PyNone]
        ELSE IF ~Truthy(g.v) THEN [k |-> "retry", exc |-> "none", v |-> PyNone]
        ELSE poll_settings(g.v, safe_json_load(Or(Get(g.v, "settings"), EmptyDict)), email)

poll_once(g, email) ==
    \* one poll: "retry" (sleep and poll again), "done" with a link or None,
    \* or the exception get_inbound raised
    LET poll_client(inbound, xs, i, email_) ==
            IF i = 0 \/ ~Truthy(xs[i])
            THEN [k |-> "retry", exc |-> "none", v |-> PyNone]
            ELSE [k |-> "done", exc |-> "none", v |-> vless_link(inbound, xs[i], email_)]
        poll_clients(inbound, clients, email_) ==
            IF ~isinstance(clients, "list")
            THEN [k |-> "raise", exc |-> "AttributeError", v |-> PyNone]
            ELSE poll_client(inbound, clients.xs,
                             FirstMatchFolded(clients.xs, strip_lower(Or(email_, PyStr(<<>>)).s), 1),
                             email_)
        poll_settings(inbound, settings, email_) ==
            poll_clients(inbound,
                         Or(Or(Get(settings, "clients"), Get(inbound, "clients")), EmptyList),
                         email_)
    IN  IF g.exc # "none" THEN [k |-> "raise", exc |-> g.exc, v |-> PyNone]
        ELSE IF ~Truthy(g.v) THEN [k |-> "retry", exc |-> "none", v |-> PyNone]
        ELSE poll_settings(g.v, safe_json_load(Or(Get(g.v, "settings"), EmptyDict)), email)

(***************************************************************************)
(* State.                                                                   *)
(***************************************************************************)
VARIABLES
    panel,      \* the panel's inbounds
    pc,         \* position of the running call, "idle" between calls
    call,       \* operation and arguments of the running (or last) call
    ret,        \* where get_inbound returns to
    giRes,      \* outcome of the last get_inbound
    plan,       \* add_traffic / update_client: clients and payload to post
    pathIdx,    \* add_client: index into paths of the next create request
    last_res,   \* add_client: last_res
    polls,      \* try_get_client_vless_link: polls that found nothing so far
    result,     \* outcome of the last call, exc = "pending" while it runs
    reqLog,     \* requests sent by the running (or last) call, in order
    lastResp,   \* outcome of _request for the request that ended the call in
                \* get_inbounds_list or in add_client's check, and for the latest
                \* write request; in get_inbound, what get_inbounds_list gave
    panel0,     \* the panel when the running (or last) call began
    calls,      \* calls begun so far
    probe,      \* a helper applied on its own: its argument and its result
    peer,       \* a second caller of the same panel (another UIAPI instance)
    user_emails,\* bot.py: telegram id -> login
    paid_users, \* bot.py: telegram id -> tariff
    bot         \* bot.py: the rest of the process's state, see Bot0

vars == << panel, pc, call, ret, giRes, plan, pathIdx, last_res, polls,
           result, reqLog, lastResp, panel0, calls, probe, peer, user_emails,
           paid_users, bot >>

(***************************************************************************)
(* Initial panels.                                                          *)
(***************************************************************************)
Client(uuid, email, total) ==
    PyDict([ id |-> S(uuid), email |-> S(email), totalGB |-> PyInt(total),
             expiryTime |-> I(0), limitIp |-> I(2), flow |-> S("xtls-rprx-vision") ])

StreamSettings ==
    json_dumps(PyDict([
        network         |-> S("tcp"),
        security        |-> S("reality"),
        realitySettings |-> PyDict([ publicKey   |-> S("PK1"),
                                     shortIds    |-> PyList(<<S("ab12")>>),
                                     serverNames |-> PyList(<<S("example.com")>>) ]),
        tlsSettings     |-> PyDict([ fingerprint |-> S("chrome") ]) ]))

\* a stock panel: settings served as a string, a limited and an unlimited client
InboundA ==
    [ f |-> [ id |-> I(1), remark |-> S("srv1"), port |-> I(443), protocol |-> S("vless"),
              streamSettings |-> StreamSettings, sniffing |-> json_dumps(EmptyDict),
              enable |-> PyBool(TRUE), tag |-> S("inbound-443"), listen |-> S("10.0.0.1") ],
      srest |-> [ decryption |-> S("none") ],
      clients |-> << Client("id-a", "alice", Num(1, 7)), Client("id-b", "bob", Num(0, 0)) >>,
      wire |-> "str" ]

\* a fork: settings served as an object, no remark and no enable field, a
\* client with neither id nor password nor totalGB
InboundB ==
    [ f |-> [ id |-> I(1), port |-> I(8443), protocol |-> S("vless"),
              streamSettings |-> StreamSettings, tag |-> S("inbound-8443") ],
      srest |-> [ decryption |-> S("none") ],
      clients |-> << Client("id-a", "alice", Num(0, 5)),
                     PyDict([ email |-> S("bob") ]) >>,
      wire |-> "obj" ]

InboundOther ==
    [ f |-> [ id |-> I(2), remark |-> PyStr(<<>>), port |-> I(80), protocol |-> S("vless"),
              enable |-> PyBool(FALSE), tag |-> S("inbound-80") ],
      srest |-> <<>>,
      clients |-> <<>>,
      wire |-> "str" ]

(***************************************************************************)
(* Arguments of the calls.                                                  *)
(***************************************************************************)
CallOf(op, inbound_id, email, add_gb, total_gb, expiry_time_ms, flow, uuid) ==
    [ op |-> op, inbound_id |-> inbound_id, email |-> email, add_gb |-> add_gb,
      total_gb |-> total_gb, expiry_time_ms |-> expiry_time_ms, flow |-> flow,
      uuid |-> uuid ]

NoCall == CallOf("none", PyNone, PyNone, 0, 0, PyNone, PyNone, PyNone)

\* the calls a caller makes.  Addressed: (inbound_id, email) of the calls that
\* address a client: a limited, an unlimited and an unknown login of inbound 1,
\* and an inbound that is not there.  Updates: (inbound_id, email, total_gb,
\* expiry_time_ms) of update_client.  Creates: (inbound_id, email, total_gb,
\* flow, uuid) of add_client: a login the inbound holds, a new one, and an
\* inbound that is not there.
Calls ==
    LET InboundIds == { I(1), I(9) }
        AddGBs == { 2 }
        Addressed == { <<I(1), S("alice")>>, <<I(1), S("bob")>>, <<I(1), S("zed")>>,
                       <<I(9), S("alice")>> }
        Updates == { <<I(1), S("alice"), 0, PyNone>>, <<I(1), S("alice"), 3, I(1000)>>,
                     <<I(1), S("bob"), 3, I(1000)>>, <<I(1), S("zed"), 0, PyNone>>,
                     <<I(9), S("alice"), 0, PyNone>> }
        Creates == { <<I(1), S("alice"), 0, PyNone, S("uuid-1")>>,
                     <<I(1), S("zed"), 3, S("xtls-rprx-vision"), S("uuid-2")>>,
                     <<I(9), S("zed"), 3, S("xtls-rprx-vision"), S("uuid-2")>> }
    IN  { CallOf("get_inbounds_list", PyNone, PyNone, 0, 0, PyNone, PyNone, PyNone) }
        \cup { CallOf(op, id, PyNone, 0, 0, PyNone, PyNone, PyNone) :
                 op \in {"get_inbound", "get_clients_list"}, id \in InboundIds }
        \cup { CallOf("get_client_vless_link", a[1], a[2], 0, 0, PyNone, PyNone, PyNone) :
                 a \in Addressed }
        \cup { CallOf("add_traffic", a[1], a[2], g, 0, PyNone, PyNone, PyNone) :
                 a \in Addressed \cup { <<I(1), S("Alice ")>> }, g \in AddGBs }
        \cup { CallOf("update_client", u[1], u[2], 0, u[3], u[4], PyNone, PyNone) :
                 u \in Updates }
        \cup { CallOf("add_client", n[1], n[2], 0, n[3], I(1000), n[4], n[5]) :
                 n \in Creates }

Entry(op) ==
    CASE op = "get_inbounds_list" -> "gl"
      [] op = "add_client"        -> "ac_check"
      [] OTHER                    -> "gi_list"

RetOf(op) ==
    CASE op = "get_inbound"           -> "gi_ret"
      [] op = "get_clients_list"      -> "gcl_ret"
      [] op = "get_client_vless_link" -> "poll_ret"
      [] op = "add_traffic"           -> "at_update"
      [] op = "update_client"         -> "uc_update"
      [] OTHER                        -> "none"

Pending == [exc |-> "pending", v |-> PyNone]
NoPlan == Plan("none", EmptyDict, <<>>, EmptyDict)

Req(kind, path, body, ok) == [kind |-> kind, path |-> path, body |-> body, ok |-> ok]

Reported(r) == r.exc = "none" /\ isinstance(r.v, "obj") /\ Get(r.v, "success") = PyBool(TRUE)

\* no helper under test, no second caller
NoProbe == [fn |-> "none", given |-> <<>>, arg |-> PyNone, out |-> Pending]
NoPeer == [pc |-> "off", call |-> NoCall, read |-> EmptyDict, result |-> Return(PyNone)]

\* bot.py's stores as loaded by _load_json: the logins of two users, and the
\* tariff of the one who paid
UserEmails0 == [uid \in {"100", "200"} |-> IF uid = "100" THEN "alice" ELSE "bob"]
PaidUsers0 == [uid \in {"100"} |-> [tariff |-> "limited_1", traffic_limit |-> 30]]

\* bot.py after its imports: UI is the module's UIAPI instance (line 54), with
\* the cookies of its session; now is the clock in half days; reminders,
\* preferred_logins and job_queue are the globals of these names; buttons are
\* the inline keyboards the bot has sent; created are the clients made for a
\* telegram id, reminded the reminder messages delivered, approvals the
\* approved renewals and top-ups; run is the handler that ran last, its user
\* and the messages it sent
Bot0 ==
    [ UI |-> "ready", cookies |-> {"3x-ui"}, now |-> 0, reminders |-> <<>>,
      preferred_logins |-> <<>>, job_queue |-> <<>>, buttons |-> {}, created |-> {},
      reminded |-> <<>>, approvals |-> 0,
      run |-> [handler |-> "none", user |-> "none", messages |-> <<>>] ]

Init ==
    /\ panel \in { <<InboundA, InboundOther>>, <<InboundOther, InboundB>>,
                   <<[InboundA EXCEPT !.clients = SubSeq(@, 1, 1)], InboundOther>> }
    /\ pc = "idle"
    /\ call = NoCall
    /\ ret = "none"
    /\ giRes = Return(PyNone)
    /\ plan = NoPlan
    /\ pathIdx = 0
    /\ last_res = EmptyDict
    /\ polls = 0
    /\ result = Return(PyNone)
    /\ reqLog = <<>>
    /\ lastResp = Return(PyNone)
    /\ panel0 = panel
    /\ calls = 0
    /\ probe = NoProbe
    /\ peer = NoPeer
    /\ user_emails = UserEmails0
    /\ paid_users = PaidUsers0
    /\ bot = Bot0

\* a caller invokes one method of UIAPI
Call ==
    /\ pc = "idle"
    /\ calls < MaxCalls
    /\ \E c \in Calls :
          /\ call' = c
          /\ pc' = Entry(c.op)
          /\ ret' = RetOf(c.op)
    /\ giRes' = Return(PyNone)
    /\ plan' = NoPlan
    /\ pathIdx' = 0
    /\ last_res' = EmptyDict
    /\ polls' = 0
    /\ result' = Pending
    /\ reqLog' = <<>>
    /\ lastResp' = Return(PyNone)
    /\ panel0' = panel
    /\ calls' = calls + 1
    /\ UNCHANGED << panel, probe, peer, user_emails, paid_users, bot >>

\* the call ends: it returns or raises r
Finish(r) ==
    /\ pc' = "idle"
    /\ result' = r

(***************************************************************************)
(* get_inbounds_list called by the caller.                                  *)
(***************************************************************************)

GetInboundsList ==
    LET GetInboundsListReturn(resp, r) ==
            /\ Finish(r)
            /\ lastResp' = resp
            /\ reqLog' = Append(reqLog, Req("list", "panel/inbound/list", EmptyDict, r.exc = "none"))
        GetInboundsListGot(resp) == GetInboundsListReturn(resp, get_inbounds_list(resp))
    IN  /\ pc = "gl"
        /\ \E shape \in ListShapes : GetInboundsListGot(request(ListResponse(shape, panel)))
        /\ UNCHANGED << panel, call, ret, giRes, plan, pathIdx, last_res, polls, panel0, calls,
                     probe, peer, user_emails, paid_users, bot >>

(***************************************************************************)
(* get_inbound: the list request, then the two direct GETs.                 *)
(***************************************************************************)

GetInboundList ==
    LET GetInboundListed(l, g) ==
            /\ reqLog' = Append(reqLog, Req("list", "panel/inbound/list", EmptyDict, l.exc = "none"))
            /\ lastResp' = l
            /\ IF g.exc # "none" \/ g.v # PyNone
               THEN giRes' = g /\ pc' = ret
               ELSE giRes' = giRes /\ pc' = "gi_get1"
        GetInboundScan(l) == GetInboundListed(l, get_inbound_fast(l, call.inbound_id))
    IN  /\ pc = "gi_list"
        /\ \E shape \in ListShapes :
              GetInboundScan(get_inbounds_list(request(ListResponse(shape, panel))))
        /\ UNCHANGED << panel, call, ret, plan, pathIdx, last_res, polls, result, panel0, calls,
                     probe, peer, user_emails, paid_users, bot >>

GetInboundDirect ==
    LET GetInboundFetched(g, path, body) ==
            /\ reqLog' = Append(reqLog, Req("get", path, body, g.exc = "none" /\ g.v # PyNone))
            /\ IF g.exc # "none" \/ g.v # PyNone THEN giRes' = g /\ pc' = ret
               ELSE IF pc = "gi_get1" THEN giRes' = giRes /\ pc' = "gi_get2"
               ELSE giRes' = Return(EmptyDict) /\ pc' = ret
    IN  /\ pc \in {"gi_get1", "gi_get2"}
        /\ \E shape \in {"neterr", "envelope", "bare", "rejected", "empty", "null"} :
              GetInboundFetched(
                  get_inbound_direct(request(GetResponse(shape, panel, call.inbound_id))),
                  IF pc = "gi_get1" THEN "panel/inbound/get/{id}" ELSE "panel/inbound/get",
                  IF pc = "gi_get1" THEN PyNone ELSE PyDict([id |-> call.inbound_id]))
        /\ lastResp' = lastResp
        /\ UNCHANGED << panel, call, ret, plan, pathIdx, last_res, polls, result, panel0, calls,
                     probe, peer, user_emails, paid_users, bot >>

\* get_inbound called by the caller returns
GetInboundReturn ==
    /\ pc = "gi_ret"
    /\ Finish(giRes)
    /\ UNCHANGED << panel, call, ret, giRes, plan, pathIdx, last_res, polls, reqLog, lastResp, panel0, calls,
                     probe, peer, user_emails, paid_users, bot >>

\* get_clients_list called by the caller returns
GetClientsListReturn ==
    /\ pc = "gcl_ret"
    /\ Finish(get_clients_list(giRes))
    /\ UNCHANGED << panel, call, ret, giRes, plan, pathIdx, last_res, polls, reqLog, lastResp, panel0, calls,
                     probe, peer, user_emails, paid_users, bot >>

(***************************************************************************)
(* add_traffic: after get_inbound, everything up to the update request and  *)
(* the check of its response (lines 305-341); then the verification read.   *)
(***************************************************************************)
\* the panel receives (or not) the update and answers r
UpdateSent(pl, shape, r) ==
    /\ WriteApplied(shape) => PanelCanUpdate(panel, call.inbound_id, pl.payload)
    /\ panel' = IF WriteApplied(shape)
                THEN PanelUpdate(panel, call.inbound_id, pl.payload)
                ELSE panel
    /\ reqLog' = Append(reqLog, Req("update", "panel/inbound/update/{id}", pl.payload, Reported(r)))
    /\ lastResp' = r

AddTrafficUpdate ==
    \* lines 340-344: if not res.get("success"): raise; then the verification read
    LET AddTrafficAnswered(r) ==
            IF r.exc # "none"
               THEN Finish(r) /\ ret' = ret
            ELSE IF ~isinstance(r.v, "obj")
               THEN Finish(Raise("AttributeError")) /\ ret' = ret
            ELSE IF ~Truthy(Get(r.v, "success"))
               THEN Finish(RaiseWith("UpdateFailed", r.v)) /\ ret' = ret
            ELSE /\ pc' = "gi_list"
                 /\ ret' = "at_verify"
                 /\ result' = result
        AddTrafficPost(pl, shape, r) == UpdateSent(pl, shape, r) /\ AddTrafficAnswered(r)
        AddTrafficPlanned(pl) ==
            /\ plan' = pl
            /\ IF pl.exc # "none"
               THEN /\ Finish(Raise(pl.exc))
                    /\ UNCHANGED << panel, reqLog, lastResp, ret, bot >>
               ELSE \E shape \in WriteShapes : AddTrafficPost(pl, shape, request(WriteResponse(shape)))
    IN  /\ pc = "at_update"
        /\ AddTrafficPlanned(add_traffic_plan(giRes, call.inbound_id, call.email, call.add_gb))
        /\ UNCHANGED << call, giRes, pathIdx, last_res, polls, panel0, calls,
                     probe, peer, user_emails, paid_users, bot >>

AddTrafficVerify ==
    \* the verification read has returned: log and return True
    LET AddTrafficVerified(cl) ==
            IF cl.exc # "none" THEN Finish(cl)
            ELSE IF ~isinstance(cl.v, "list") THEN Finish(Raise("AttributeError"))
            ELSE Finish(Return(PyBool(TRUE)))
    IN  /\ pc = "at_verify"
        /\ AddTrafficVerified(get_clients_list(giRes))
        /\ UNCHANGED << panel, call, ret, giRes, plan, pathIdx, last_res, polls, reqLog, lastResp, panel0, calls,
                     probe, peer, user_emails, paid_users, bot >>

(***************************************************************************)
(* update_client: after get_inbound, everything up to the update request    *)
(* and the check of its response (lines 362-406).                           *)
(***************************************************************************)

UpdateClientUpdate ==
    \* lines 403-406: if isinstance(res, dict) and res.get("success") is True
    LET UpdateClientAnswered(r) ==
            IF r.exc # "none" THEN Finish(r)
            ELSE IF ~Reported(r) THEN Finish(RaiseWith("UpdateFailed", r.v))
            ELSE Finish(Return(PyBool(TRUE)))
        UpdateClientPost(pl, shape, r) == UpdateSent(pl, shape, r) /\ UpdateClientAnswered(r)
        UpdateClientPlanned(pl) ==
            /\ plan' = pl
            /\ IF pl.exc # "none"
               THEN /\ Finish(Raise(pl.exc))
                    /\ UNCHANGED << panel, reqLog, lastResp, bot >>
               ELSE \E shape \in WriteShapes : UpdateClientPost(pl, shape, request(WriteResponse(shape)))
    IN  /\ pc = "uc_update"
        /\ UpdateClientPlanned(update_client_plan(giRes, call.inbound_id, call.email,
                                                  call.total_gb, call.expiry_time_ms))
        /\ UNCHANGED << call, ret, giRes, pathIdx, last_res, polls, panel0, calls,
                     probe, peer, user_emails, paid_users, bot >>

(***************************************************************************)
(* add_client: the inbound check (254-256), the loop over paths (284-297),  *)
(* then get_client_vless_link (300).                                        *)
(***************************************************************************)
RECURSIVE IdsOf(_)
IdsOf(xs) == IF xs = <<>> THEN <<>> ELSE <<Get(Head(xs), "id")>> \o IdsOf(Tail(xs))

\* variant: the inbound is not looked up in the list
add_client_check_skipped(l, inbound_id) ==
    IF l.exc # "none" THEN l ELSE Return(PyBool(TRUE))

\* lines 254-256: the check applied to the list
add_client_check(l, inbound_id) ==
    \* lines 254-256, given the outcome l of get_inbounds_list: Return(True) when
    \* the inbound is listed, else the error naming the listed ids
    LET add_client_listed(l_, g) ==
            IF g.exc # "none" THEN g
            ELSE IF g.v = PyNone THEN RaiseWith("InboundNotFound", PyList(IdsOf(l_.v.xs)))
            ELSE Return(PyBool(TRUE))
    IN  add_client_listed(l, get_inbound_fast(l, inbound_id))

AddClientCheck ==
    LET AddClientChecked(resp, l, g) ==
            /\ reqLog' = Append(reqLog, Req("list", "panel/inbound/list", EmptyDict, l.exc = "none"))
            /\ IF g.exc # "none"
                  THEN /\ Finish(g)
                       /\ pathIdx' = pathIdx
                       /\ lastResp' = resp
               ELSE /\ pc' = "ac_create"
                    /\ pathIdx' = 1
                    /\ result' = result
                    /\ lastResp' = lastResp
        AddClientListed(resp, l) == AddClientChecked(resp, l, add_client_check(l, call.inbound_id))
        AddClientGot(resp) == AddClientListed(resp, get_inbounds_list(resp))
    IN  /\ pc = "ac_check"
        /\ \E shape \in ListShapes : AddClientGot(request(ListResponse(shape, panel)))
        /\ UNCHANGED << panel, call, ret, giRes, plan, last_res, polls, panel0, calls,
                     probe, peer, user_emails, paid_users, bot >>

AddClientCreate ==
    \* one iteration of the loop over paths: the request with this body, its
    \* answer r and what the loop does with it
    LET AddClientAttempted(a) ==
            /\ last_res' = a.last_res
            /\ IF a.ok
                  THEN /\ pc' = "gi_list"
                       /\ ret' = "poll_ret"
                       /\ pathIdx' = pathIdx
                       /\ result' = result
               ELSE IF pathIdx < Len(paths)
                  THEN /\ pc' = pc
                       /\ ret' = ret
                       /\ pathIdx' = pathIdx + 1
                       /\ result' = result
               ELSE /\ Finish(RaiseWith("AddClientFailed", a.last_res))
                    /\ ret' = ret
                    /\ pathIdx' = pathIdx
        AddClientPost(body, shape, r) ==
            /\ WriteApplied(shape) => PanelCanAddClient(panel, call.inbound_id, body)
            /\ panel' = IF WriteApplied(shape)
                        THEN PanelAddClient(panel, call.inbound_id, body)
                        ELSE panel
            /\ reqLog' = Append(reqLog, Req("create", paths[pathIdx], body, Reported(r)))
            /\ lastResp' = r
            /\ AddClientAttempted(create_attempt(r))
        AddClientBody(body) ==
            \E shape \in WriteShapes : AddClientPost(body, shape, request(WriteResponse(shape)))
    IN  /\ pc = "ac_create"
        /\ AddClientBody(create_body(pathIdx,
                                     create_payload(call.inbound_id,
                                                    client_obj(call.uuid, call.email, 2, call.total_gb,
                                                               call.expiry_time_ms, call.flow))))
        /\ UNCHANGED << call, giRes, plan, polls, panel0, calls,
                     probe, peer, user_emails, paid_users, bot >>

(***************************************************************************)
(* get_client_vless_link: one poll of try_get_client_vless_link has its     *)
(* inbound.  Whether the deadline has passed after the sleep is not         *)
(* determined by the model; MaxPolls polls always reach it.                 *)
(***************************************************************************)
\* variant: a client that is not visible yet makes add_client create it again
PolledRecreating(r) ==
    CASE r.k = "raise" -> Finish(Raise(r.exc)) /\ polls' = polls
      [] r.k = "done"  ->
            /\ polls' = polls
            /\ IF Truthy(r.v) THEN Finish(Return(r.v))
               ELSE Finish(Raise("LookupError"))
      [] r.k = "retry" ->
            \E expired \in BOOLEAN :
               /\ polls' = polls + 1
               /\ IF expired \/ polls + 1 >= MaxPolls
                  THEN Finish(Raise("LookupError"))
                  ELSE /\ pc' = IF call.op = "add_client" THEN "ac_create" ELSE "gi_list"
                       /\ result' = result

Polled(r) ==
    CASE r.k = "raise" -> Finish(Raise(r.exc)) /\ polls' = polls
      [] r.k = "done"  ->
            /\ polls' = polls
            /\ IF Truthy(r.v) THEN Finish(Return(r.v))
               ELSE Finish(Raise("LookupError"))
      [] r.k = "retry" ->
            \E expired \in BOOLEAN :
               /\ polls' = polls + 1
               /\ IF expired \/ polls + 1 >= MaxPolls
                  THEN Finish(Raise("LookupError"))
                  ELSE pc' = "gi_list" /\ result' = result

PollReturn ==
    /\ pc = "poll_ret"
    /\ Polled(poll_once(giRes, call.email))
    /\ UNCHANGED << panel, call, ret, giRes, plan, pathIdx, last_res, reqLog, lastResp, panel0, calls,
                     probe, peer, user_emails, paid_users, bot >>

Next ==
    \/ Call
    \/ GetInboundsList
    \/ GetInboundList
    \/ GetInboundDirect
    \/ GetInboundReturn
    \/ GetClientsListReturn
    \/ AddTrafficUpdate
    \/ AddTrafficVerify
    \/ UpdateClientUpdate
    \/ AddClientCheck
    \/ AddClientCreate
    \/ PollReturn

Spec == Init /\ [][Next]_vars

(***************************************************************************)
(* The helpers applied on their own: _safe_json_load on a value, and the    *)
(* link assembly of try_get_client_vless_link on an inbound and its matched *)
(* client.  The arguments are drawn in the initial state.                   *)
(***************************************************************************)
MaxEncodings == 4

\* json.dumps applied k times to a value
RECURSIVE Encode(_, _)
Encode(v, k) == IF k = 0 THEN v ELSE json_dumps(Encode(v, k - 1))

\* one poll of the link resolution on inbounds whose logins differ in case and
\* surrounding space, for requested logins that do too
PollClients ==
    << PyDict([ id |-> S("id-0") ]),
       Client("id-1", " bob", Num(0, 0)), Client("id-2", "Alice ", Num(0, 0)),
       Client("id-3", "alice", Num(0, 0)), Client("id-4", "ALICE", Num(0, 0)),
       Client("id-5", " Bob ", Num(0, 0)), Client("id-6", "carol", Num(0, 0)) >>

\* the deadline of the polling inside add_client(..., wait_seconds): line 300
\* calls get_client_vless_link(inbound_id, email), which polls with
\* wait_seconds=12 (line 230)
add_client_deadline(now, wait_seconds) ==
    \* line 169: time.time() + max(1, int(wait_seconds))
    LET poll_deadline(now_, wait_seconds_) ==
            now_ + (IF wait_seconds_ > 1 THEN wait_seconds_ ELSE 1)
    IN  poll_deadline(now, 12)

\* the inputs of the helpers under test
Probes ==
    LET \* _safe_json_load on objects and on values that are no objects, serialised
        \* up to MaxEncodings times
        JsonProbes ==
            LET JsonObjects ==
                    { EmptyDict,
                      SettingsOf(InboundA),
                      PyDict([ realitySettings |-> PyDict([ shortIds |-> PyList(<<S("ab12")>>) ]),
                               note |-> json_dumps(EmptyDict) ]) }
                NonObjects ==
                    { PyNone, I(5), PyBool(TRUE), PyList(<<I(1), EmptyDict>>), S("unauthorized"),
                      PyStr(<<>>) }
            IN  { [ fn |-> "_safe_json_load", given |-> [base |-> b, depth |-> k],
                    arg |-> Encode(b, k), out |-> Pending ] :
                      b \in JsonObjects \cup NonObjects, k \in 0..MaxEncodings }
        \* the link assembly on inbounds and clients that carry or lack each of the
        \* optional fields (LinkGiven says which), and on the stock inbound
        LinkProbes ==
            LET LinkGiven ==
                    [ kind   : {"fields"},
                      cred   : {"id", "password", "both", "none"},
                      flow   : BOOLEAN,
                      pbk    : {"outer", "nested", "both", "none"},
                      sid    : {"absent", "empty", "two"},
                      sni    : BOOLEAN,
                      fp     : {"tls", "rs", "both", "none"},
                      remark : {"absent", "empty", "set"},
                      wire   : {"str", "obj"} ]
                Field(present, key, v) == IF present THEN [x \in {key} |-> v] ELSE <<>>
                LinkClient(g) ==
                    PyDict(Merge([email |-> S("alice")],
                           Merge(Field(g.cred \in {"id", "both"}, "id", S("id-a")),
                           Merge(Field(g.cred \in {"password", "both"}, "password", S("pw-a")),
                                 Field(g.flow, "flow", S("xtls-rprx-direct"))))))
                LinkStream(g) ==
                    PyDict([ network |-> S("tcp"), security |-> S("reality"),
                             realitySettings |->
                                 PyDict(Merge(Field(g.pbk \in {"outer", "both"}, "publicKey", S("PK1")),
                                        Merge(Field(g.pbk \in {"nested", "both"}, "settings",
                                                    PyDict([publicKey |-> S("PK2")])),
                                        Merge(Field(g.sid # "absent", "shortIds",
                                                    PyList(IF g.sid = "empty" THEN <<>>
                                                           ELSE <<S("ab12"), S("cd34")>>)),
                                        Merge(Field(g.sni, "serverNames",
                                                    PyList(<<S("example.com"), S("example.org")>>)),
                                              Field(g.fp \in {"rs", "both"}, "fingerprint",
                                                    S("safari"))))))),
                             tlsSettings |->
                                 PyDict(Field(g.fp \in {"tls", "both"}, "fingerprint", S("firefox"))) ])
                LinkInbound(g) ==
                    PyDict(Merge([ id |-> I(1), port |-> I(443), protocol |-> S("vless"),
                                   streamSettings |-> IF g.wire = "str" THEN json_dumps(LinkStream(g))
                                                      ELSE LinkStream(g) ],
                                 Field(g.remark # "absent", "remark",
                                       IF g.remark = "empty" THEN PyStr(<<>>) ELSE S("srv1"))))
                LinkArg(inbound, client, email) ==
                    [inbound |-> inbound, client |-> client, email |-> email]
            IN  { [ fn |-> "vless_link", given |-> g,
                    arg |-> LinkArg(LinkInbound(g), LinkClient(g), S("alice")), out |-> Pending ] :
                      g \in LinkGiven }
                \cup { [ fn |-> "vless_link", given |-> [kind |-> "scenario"],
                         arg |-> LinkArg(InboundWire(InboundA), InboundA.clients[1], S("alice")),
                         out |-> Pending ] }
        \* update_client and add_traffic on an inbound that holds a login twice, a
        \* login that differs in case and space only, and a client without expiryTime
        PlanProbes ==
            LET PlanClients ==
                    << Client("id-a", "alice", Num(1, 7)), Client("id-b", "bob", Num(0, 0)),
                       Client("id-c", "alice", Num(2, 0)), Client("id-d", "Alice ", Num(3, 0)),
                       PyDict([ id |-> S("id-e"), email |-> S("carol"), totalGB |-> I(5) ]) >>
            IN  { [ fn |-> c.op, given |-> [clients |-> PlanClients, wire |-> w],
                    arg |-> [ inbound |-> InboundWire([InboundA EXCEPT !.clients = PlanClients,
                                                                       !.wire = w]),
                              call |-> c ],
                    out |-> Pending ] :
                      w \in {"str", "obj"},
                      c \in { CallOf(op, I(1), S(e), 2, t, x, PyNone, PyNone) :
                                op \in {"update_client", "add_traffic"},
                                e \in {"alice", "bob", "Alice ", "carol", "zed"},
                                t \in {0, 3}, x \in {PyNone, I(1000)} } }
        PollProbes ==
            { [ fn |-> "poll_once", given |-> [clients |-> xs, email |-> e],
                arg |-> [ g |-> Return(InboundWire([InboundA EXCEPT !.clients = xs])),
                          email |-> S(e) ],
                out |-> Pending ] :
                  xs \in { PollClients,
                           [j \in 1..Len(PollClients) |-> PollClients[Len(PollClients) + 1 - j]] },
                  e \in {"alice", "Alice ", "ALICE", "bob", " bob", " Bob ", "carol", "zed"} }
        \* add_client entered at time now with the default wait, the bot's, a short
        \* and a long one
        WaitProbes ==
            { [ fn |-> "add_client_deadline", given |-> [now |-> t, wait_seconds |-> w],
                arg |-> PyNone, out |-> Pending ] :
                  t \in {0, 100}, w \in {0, 5, 12, 15, 30} }
    IN  JsonProbes \cup LinkProbes \cup PlanProbes \cup PollProbes \cup WaitProbes

InitPure ==
    /\ panel = <<InboundA, InboundOther>>
    /\ pc = "idle"
    /\ call = NoCall
    /\ ret = "none"
    /\ giRes = Return(PyNone)
    /\ plan = NoPlan
    /\ pathIdx = 0
    /\ last_res = EmptyDict
    /\ polls = 0
    /\ result = Return(PyNone)
    /\ reqLog = <<>>
    /\ lastResp = Return(PyNone)
    /\ panel0 = panel
    /\ calls = 0
    /\ probe \in Probes
    /\ peer = NoPeer
    /\ user_emails = UserEmails0
    /\ paid_users = PaidUsers0
    /\ bot = Bot0

Applied(out) ==
    /\ probe.out = Pending
    /\ probe' = [probe EXCEPT !.out = Return(out)]
    /\ UNCHANGED << panel, pc, call, ret, giRes, plan, pathIdx, last_res, polls, result,
                    reqLog, lastResp, panel0, calls, peer, user_emails, paid_users, bot >>

SafeJsonLoad ==
    /\ probe.fn = "_safe_json_load"
    /\ Applied(safe_json_load(probe.arg))

VlessLink ==
    /\ probe.fn = "vless_link"
    /\ Applied(vless_link(probe.arg.inbound, probe.arg.client, probe.arg.email))

\* update_client / add_traffic up to the payload of the update request
UpdatePlan ==
    /\ probe.fn \in {"update_client", "add_traffic"}
    /\ Applied(IF probe.fn = "update_client"
               THEN update_client_plan(Return(probe.arg.inbound), probe.arg.call.inbound_id,
                                       probe.arg.call.email, probe.arg.call.total_gb,
                                       probe.arg.call.expiry_time_ms)
               ELSE add_traffic_plan(Return(probe.arg.inbound), probe.arg.call.inbound_id,
                                     probe.arg.call.email, probe.arg.call.add_gb))

\* one iteration of try_get_client_vless_link's loop
PollOnce ==
    /\ probe.fn = "poll_once"
    /\ Applied(poll_once(probe.arg.g, probe.arg.email))

\* add_client reaches its link resolution
AddClientWait ==
    /\ probe.fn = "add_client_deadline"
    /\ Applied(I(add_client_deadline(probe.given.now, probe.given.wait_seconds)))

NextPure ==
    \/ SafeJsonLoad
    \/ VlessLink
    \/ UpdatePlan
    \/ PollOnce
    \/ AddClientWait

SpecPure == InitPure /\ [][NextPure]_vars

(***************************************************************************)
(* The bot and a second caller.  bot.py drives one UIAPI instance from its  *)
(* handlers, one handler at a time; nothing in UIAPI or in the panel's API  *)
(* orders its requests with those of another instance (a second bot         *)
(* process, a script) working on the same inbound.  The second caller runs  *)
(* one update_client: its get_inbound, then its update request, each        *)
(* answered by the panel.                                                   *)
(***************************************************************************)
\* a handler of the bot invokes one of the mutating calls on its inbound
CallRace ==
    /\ pc = "idle"
    /\ calls < MaxCalls
    /\ \E c \in { d \in Calls :
                    /\ d.inbound_id = I(1)
                    /\ \/ d.op = "add_traffic" /\ d.email = S("alice")
                       \/ d.op = "add_client" /\ d.email = S("zed") } :
          /\ call' = c
          /\ pc' = Entry(c.op)
          /\ ret' = RetOf(c.op)
    /\ giRes' = Return(PyNone)
    /\ plan' = NoPlan
    /\ pathIdx' = 0
    /\ last_res' = EmptyDict
    /\ polls' = 0
    /\ result' = Pending
    /\ reqLog' = <<>>
    /\ lastResp' = Return(PyNone)
    /\ panel0' = panel
    /\ calls' = calls + 1
    /\ UNCHANGED << panel, probe, peer, user_emails, paid_users, bot >>

\* what the second caller posts, given the inbound it read
PeerPlan(c, read) ==
    IF c.op = "add_traffic"
    THEN add_traffic_plan(Return(read), c.inbound_id, c.email, c.add_gb)
    ELSE update_client_plan(Return(read), c.inbound_id, c.email, c.total_gb, c.expiry_time_ms)

\* the second caller begins its call: its get_inbound returns the inbound as
\* the panel holds it now
PeerRead ==
    /\ peer.pc = "off"
    /\ \E c \in { CallOf("update_client", I(1), S("bob"), 0, 3, I(1000), PyNone, PyNone) } :
          /\ PanelIndex(panel, c.inbound_id) # 0
          /\ peer' = [ pc |-> "write", call |-> c,
                       read |-> InboundWire(panel[PanelIndex(panel, c.inbound_id)]),
                       result |-> Pending ]
    /\ UNCHANGED << panel, pc, call, ret, giRes, plan, pathIdx, last_res, polls, result,
                    reqLog, lastResp, panel0, calls, probe, user_emails, paid_users, bot >>

\* variant: the update is computed from the inbound as the panel holds it
\* when the update request arrives
PeerWriteFresh ==
    LET PeerWritten(pl) ==
            IF pl.exc # "none"
            THEN /\ panel' = panel
                 /\ peer' = [peer EXCEPT !.pc = "done", !.result = Raise(pl.exc)]
            ELSE /\ PanelCanUpdate(panel, peer.call.inbound_id, pl.payload)
                 /\ panel' = PanelUpdate(panel, peer.call.inbound_id, pl.payload)
                 /\ peer' = [peer EXCEPT !.pc = "done", !.result = Return(PyBool(TRUE))]
    IN  /\ peer.pc = "write"
        /\ PeerWritten(PeerPlan(peer.call,
                                InboundWire(panel[PanelIndex(panel, peer.call.inbound_id)])))
        /\ UNCHANGED << pc, call, ret, giRes, plan, pathIdx, last_res, polls, result,
                        reqLog, lastResp, panel0, calls, probe, user_emails, paid_users, bot >>

\* its update request, built from what it read, answered with success
PeerWrite ==
    LET PeerWritten(pl) ==
            IF pl.exc # "none"
            THEN /\ panel' = panel
                 /\ peer' = [peer EXCEPT !.pc = "done", !.result = Raise(pl.exc)]
            ELSE /\ PanelCanUpdate(panel, peer.call.inbound_id, pl.payload)
                 /\ panel' = PanelUpdate(panel, peer.call.inbound_id, pl.payload)
                 /\ peer' = [peer EXCEPT !.pc = "done", !.result = Return(PyBool(TRUE))]
    IN  /\ peer.pc = "write"
        /\ PeerWritten(PeerPlan(peer.call, peer.read))
        /\ UNCHANGED << pc, call, ret, giRes, plan, pathIdx, last_res, polls, result,
                        reqLog, lastResp, panel0, calls, probe, user_emails, paid_users, bot >>

\* variant: the client is removed from the panel's inbounds as well
DelKeyRemoving ==
    /\ pc = "idle"
    /\ calls < MaxCalls
    /\ calls' = calls + 1
    /\ \E admin \in BOOLEAN, login \in {"alice", "zed"} :
          LET hit == IF admin THEN {uid \in DOMAIN user_emails : user_emails[uid] = login}
                     ELSE {}
          IN  /\ user_emails' = [uid \in DOMAIN user_emails \ hit |-> user_emails[uid]]
              /\ paid_users' = [uid \in DOMAIN paid_users \ hit |-> paid_users[uid]]
              /\ panel' = [i \in 1..Len(panel) |->
                              [panel[i] EXCEPT !.clients =
                                  SelectSeq(@, LAMBDA c : ~admin \/ Get(c, "email") # S(login))]]
    /\ UNCHANGED << pc, call, ret, giRes, plan, pathIdx, last_res, polls, result,
                    reqLog, lastResp, panel0, probe, peer, bot >>

DelKey ==
    /\ pc = "idle"
    /\ calls < MaxCalls
    /\ calls' = calls + 1
    /\ \E admin \in BOOLEAN, login \in {"alice", "zed"} :
          LET hit == IF admin THEN {uid \in DOMAIN user_emails : user_emails[uid] = login}
                     ELSE {}
          IN  /\ user_emails' = [uid \in DOMAIN user_emails \ hit |-> user_emails[uid]]
              /\ paid_users' = [uid \in DOMAIN paid_users \ hit |-> paid_users[uid]]
    /\ UNCHANGED << panel, pc, call, ret, giRes, plan, pathIdx, last_res, polls, result,
                    reqLog, lastResp, panel0, probe, peer, bot >>

NextRace ==
    \/ CallRace
    \/ GetInboundList
    \/ GetInboundDirect
    \/ AddTrafficUpdate
    \/ AddTrafficVerify
    \/ AddClientCheck
    \/ AddClientCreate
    \/ PollReturn
    \/ PeerRead
    \/ PeerWrite
    \/ DelKey

\* the bot's inbound is the first of a stock panel
InitRace ==
    /\ Init
    /\ panel = <<InboundA, InboundOther>>

SpecRace == InitRace /\ [][NextRace]_vars

(***************************************************************************)
(* bot.py.  The process constructs its UIAPI instance while the module is   *)
(* imported (lines 54-58) and then runs its handlers one at a time; each    *)
(* handler is one step, the UIAPI calls it makes run to completion inside   *)
(* it.  Time is counted in half days; expiryTime of the panel's clients is  *)
(* in the same unit.                                                        *)
(***************************************************************************)
MaxJobs == 1         \* jobs waiting in the job queue
MaxApprovals == 1    \* approved renewals and top-ups
MaxNow == 5          \* the clock stops here (half days)

ALLOWED_ADMINS == {"900"}

\* the handlers' test left out
is_admin_anyone(user) == TRUE

\* query.from_user.id in ALLOWED_ADMINS (lines 476, 648, 794)
is_admin(user) == user \in ALLOWED_ADMINS

\* two of the tariffs of lines 63-70
TARIFFS ==
    [ limited_1   |-> [months |-> 1, traffic_limit |-> 30, flow |-> S("xtls-rprx-vision")],
      unlimited_1 |-> [months |-> 1, traffic_limit |-> 0, flow |-> S("xtls-rprx-vision")] ]

\* the panel of the bot: a mapped client that expires on day 3, a mapped one
\* that never expires, and one that expires on day 1 and belongs to no chat
BotInbound ==
    [InboundA EXCEPT !.clients =
        << SetItem(Client("id-a", "alice", Num(30, 0)), "expiryTime", I(7)),
           Client("id-b", "bob", Num(0, 0)),
           SetItem(Client("id-c", "carol", Num(30, 0)), "expiryTime", I(2)) >>]

\* _login without the test of line 84
_login_unchecked(shape) ==
    CASE shape \in {"cookies", "nocookies"} -> "ready"
      [] shape = "httperr" -> "HTTPError"
      [] OTHER -> "ConnectionError"

\* UIAPI._login (lines 79-85) as __init__ runs it: what becomes of the instance
\* when the panel answers with cookies, answers 200 without any, answers an
\* HTTP error, or cannot be reached
_login(shape) ==
    CASE shape = "cookies"   -> "ready"
      [] shape = "nocookies" -> "RuntimeError"
      [] shape = "httperr"   -> "HTTPError"
      [] OTHER               -> "ConnectionError"

\* a method of UI called by a handler and run to completion on INBOUND_ID: its
\* outcome, the panel it leaves and the kinds of the requests it sent.  shape:
\* the panel answers ("ok"), the first request fails ("neterr"), the client is
\* not visible within the polling window ("timeout"), the panel refuses every
\* create or update request ("rejected"), the read that follows an applied
\* update of add_traffic fails ("verifyerr")
UI(op, a, shape) ==
    LET read(p_) == Return(InboundWire(p_[PanelIndex(p_, I(1))]))
        polled(r) ==
            IF r.k = "raise" THEN Raise(r.exc)
            ELSE IF r.k = "done" /\ Truthy(r.v) THEN Return(r.v)
            ELSE Raise("LookupError")
        linked(p_, shape_, email_) ==
            IF shape_ = "timeout" THEN Raise("LookupError")
            ELSE polled(poll_once(read(p_), email_))
        done(out, p_, kinds) == [out |-> out, panel |-> p_, reqs |-> kinds]
        written(pl, kinds) ==
            IF pl.exc # "none" THEN done(Raise(pl.exc), panel, <<"list">>)
            ELSE IF shape = "rejected"
            THEN done(Raise("UpdateFailed"), panel, <<"list", "update">>)
            ELSE IF shape = "verifyerr" /\ op = "add_traffic"
            THEN done(Raise("ConnectionError"), PanelUpdate(panel, I(1), pl.payload), kinds)
            ELSE done(Return(PyBool(TRUE)), PanelUpdate(panel, I(1), pl.payload), kinds)
    IN  CASE shape = "neterr" -> done(Raise("ConnectionError"), panel, <<"list">>)
          [] op = "get_clients_list" -> done(get_clients_list(read(panel)), panel, <<"list">>)
          [] op = "get_client_vless_link" ->
                done(linked(panel, shape, a.email), panel, <<"list">>)
          [] op = "add_client" ->
                IF shape = "rejected"
                THEN done(Raise("AddClientFailed"), panel,
                          <<"list", "create", "create", "create", "create">>)
                ELSE done(linked(PanelAddClient(panel, I(1), create_payload(I(1), a.client)),
                                 shape, a.email),
                          PanelAddClient(panel, I(1), create_payload(I(1), a.client)),
                          <<"list", "create", "list">>)
          [] op = "update_client" ->
                written(update_client_plan(read(panel), I(1), a.email, a.total_gb,
                                           a.expiry_time_ms),
                        <<"list", "update">>)
          [] OTHER ->
                written(add_traffic_plan(read(panel), I(1), a.email, a.add_gb),
                        <<"list", "update", "list">>)

\* the handler h run by user sent the messages ms
Ran(h, user, ms) == [handler |-> h, user |-> user, messages |-> ms]
Msg(to, text) == [to |-> to, text |-> text]

\* bot.py over the panel of BotInbound, no UIAPI call under way: the process
\* state is b and the requests of the last run are log
BotStart(b, log) ==
    /\ panel = <<BotInbound, InboundOther>>
    /\ pc = "idle"
    /\ call = NoCall
    /\ ret = "none"
    /\ giRes = Return(PyNone)
    /\ plan = NoPlan
    /\ pathIdx = 0
    /\ last_res = EmptyDict
    /\ polls = 0
    /\ result = Return(PyNone)
    /\ reqLog = log
    /\ lastResp = Return(PyNone)
    /\ panel0 = panel
    /\ calls = 0
    /\ probe = NoProbe
    /\ peer = NoPeer
    /\ user_emails = UserEmails0
    /\ paid_users = PaidUsers0
    /\ bot = b

\* the interpreter reaches line 54 of bot.py: no UIAPI instance yet
InitBot == BotStart([Bot0 EXCEPT !.UI = "none", !.cookies = {}], <<>>)

\* UI = UIAPI(...) (bot.py 54-58): __init__ ends with _login
Login ==
    /\ bot.UI = "none"
    /\ \E shape \in {"cookies", "nocookies", "httperr", "neterr"} :
          /\ bot' = [bot EXCEPT !.UI = _login(shape),
                                !.cookies = IF shape = "cookies" THEN {"3x-ui"} ELSE {},
                                !.run = Ran("UIAPI", "none", <<>>)]
          /\ reqLog' = <<Req("login", "login", PyNone, shape \in {"cookies", "nocookies"})>>
    /\ UNCHANGED << panel, pc, call, ret, giRes, plan, pathIdx, last_res, polls, result,
                    lastResp, panel0, calls, probe, peer, user_emails, paid_users >>

\* a handler ends: the panel, the stores and the process state it leaves, and
\* the requests it sent
Handled(p, ue, pu, b, kinds) ==
    /\ panel' = p
    /\ user_emails' = ue
    /\ paid_users' = pu
    /\ bot' = b
    /\ reqLog' = [k \in 1..Len(kinds) |-> Req(kinds[k], "panel/inbound", PyNone, TRUE)]
    /\ UNCHANGED << pc, call, ret, giRes, plan, pathIdx, last_res, polls, result,
                    lastResp, panel0, calls, probe, peer >>

\* an inline button of a keyboard the bot sent, with its callback data
Button(kind, code, tgid, email) == [kind |-> kind, code |-> code, tgid |-> tgid, email |-> email]

\* /add_key <login> (lines 277-320)
AddKey ==
    LET add_key(user, login, existing, link) ==
            IF user \in DOMAIN user_emails
            THEN Handled(panel, user_emails, paid_users,
                         [bot EXCEPT !.run = Ran("add_key", user, <<Msg(user, "has_key")>>)],
                         <<>>)
            ELSE IF user \in ALLOWED_ADMINS
            THEN IF /\ existing.exc = "none"
                    /\ FirstMatch(existing.v.xs, S(login), 1) # 0
                    /\ link.exc = "none"
                 THEN Handled(panel, user_emails, paid_users,
                              [bot EXCEPT !.run = Ran("add_key", user, <<Msg(user, "link")>>)],
                              <<"list", "list">>)
                 ELSE Handled(panel, user_emails, paid_users,
                              [bot EXCEPT !.buttons = @ \cup {Button("admin_plan", "", "", login)},
                                          !.run = Ran("add_key", user, <<Msg(user, "tariffs")>>)],
                              <<"list">>)
            ELSE Handled(panel, user_emails, paid_users,
                         [bot EXCEPT !.preferred_logins = (user :> login) @@ @,
                                     !.buttons = @ \cup {Button("user_plan", "", user, login)},
                                     !.run = Ran("add_key", user, <<Msg(user, "tariffs")>>)],
                         <<>>)
    IN  /\ bot.UI = "ready"
        \* (user, login): the users send /add_key <login>
        /\ \E a \in { <<"100", "u1">>, <<"300", "u1">>, <<"300", "user_300_a">>,
                      <<"900", "user_300_a">> },
              shape \in {"ok", "neterr"} :
              add_key(a[1], a[2],
                      UI("get_clients_list", [email |-> S(a[2])], shape).out,
                      UI("get_client_vless_link", [email |-> S(a[2])], shape).out)

\* a tariff button of the user's keyboard (lines 322-352)
UserPlanPick ==
    /\ bot.UI = "ready"
    /\ \E b \in {x \in bot.buttons : x.kind = "user_plan"}, code \in {"limited_1"} :
          Handled(panel, user_emails, paid_users,
                  [bot EXCEPT !.buttons = @ \cup {Button("approve", code, b.tgid, b.email)},
                              !.run = Ran("user_plan_pick_callback", b.tgid,
                                          <<Msg(b.tgid, "pay"), Msg("900", "request")>>)],
                  <<>>)

\* "payment received" pressed (lines 472-577, the definition in force)
ApprovePayment ==
    LET recorded(f, tgid, v) == (tgid :> v) @@ f
        made(r, tgid, email) == IF r.panel # panel THEN {<<tgid, email>>} ELSE {}
        \* lines 489-523: no such client, create it
        create(b, user, t, r) ==
            IF r.out.exc # "none"
            THEN Handled(r.panel, user_emails, paid_users,
                         [bot EXCEPT !.created = @ \cup made(r, b.tgid, b.email),
                                     !.run = Ran("approve_payment_callback", user,
                                                 <<Msg(user, "create_failed")>>)],
                         r.reqs)
            ELSE Handled(r.panel, recorded(user_emails, b.tgid, b.email),
                         recorded(paid_users, b.tgid,
                                  [tariff |-> b.code, traffic_limit |-> t.traffic_limit]),
                         [bot EXCEPT !.created = @ \cup made(r, b.tgid, b.email),
                                     !.run = Ran("approve_payment_callback", user,
                                                 <<Msg(b.tgid, "activate"), Msg(user, "created")>>)],
                         r.reqs)
        \* lines 525-577: the client exists, renew it
        renew(b, user, t, r, link) ==
            IF r.out.exc # "none"
            THEN Handled(r.panel, user_emails, paid_users,
                         [bot EXCEPT !.run = Ran("approve_payment_callback", user,
                                                 <<Msg(user, "update_failed")>>)],
                         r.reqs)
            ELSE Handled(r.panel, recorded(user_emails, b.tgid, b.email),
                         recorded(paid_users, b.tgid,
                                  [tariff |-> b.code, traffic_limit |-> t.traffic_limit]),
                         [bot EXCEPT !.approvals = @ + 1,
                                     !.run = Ran("approve_payment_callback", user,
                                                 <<Msg(b.tgid, IF link.exc = "none" THEN "renewed"
                                                               ELSE "renewed_no_link"),
                                                   Msg(user, "renewal_done")>>)],
                         r.reqs \o <<"list">>)
        \* lines 526-538: the new expiry and the new ceiling in GB
        new_expiry(cur, t) == (IF cur > bot.now THEN cur ELSE bot.now) + 60 * t.months
        renewed_limit(raw, t) ==
            IF t.traffic_limit = 0 THEN 0
            ELSE (IF raw.hi > 0 \/ raw.lo > 1000000 THEN raw.hi ELSE raw.lo) + t.traffic_limit
        approve(b, user, t, clients, s2, s3) ==
            IF ~is_admin(user)
            THEN Handled(panel, user_emails, paid_users,
                         [bot EXCEPT !.run = Ran("approve_payment_callback", user, <<>>)], <<>>)
            ELSE IF clients.exc # "none"
            THEN Handled(panel, user_emails, paid_users,
                         [bot EXCEPT !.run = Ran("approve_payment_callback", user, <<>>)],
                         <<"list">>)
            ELSE IF FirstMatch(clients.v.xs, S(b.email), 1) = 0
            THEN create(b, user, t,
                        UI("add_client",
                           [ email |-> S(b.email),
                             client |-> client_obj(PyStr(<<TWord("uuid-")>> \o S(b.email).s),
                                                   S(b.email), 2, t.traffic_limit,
                                                   I(bot.now + 60 * t.months), t.flow) ],
                           s2))
            ELSE /\ bot.approvals < MaxApprovals
                 /\ renew(b, user, t,
                          UI("update_client",
                             [ email |-> S(b.email),
                               total_gb |->
                                   renewed_limit(Or(Get(clients.v.xs[FirstMatch(clients.v.xs, S(b.email), 1)],
                                                    "totalGB"), I(0)).n, t),
                               expiry_time_ms |->
                                   I(new_expiry(Or(Get(clients.v.xs[FirstMatch(clients.v.xs, S(b.email), 1)],
                                                       "expiryTime"), I(0)).n.lo, t)) ],
                             s2),
                          UI("get_client_vless_link", [email |-> S(b.email)], s3).out)
    IN  /\ bot.UI = "ready"
        /\ \E b \in {x \in bot.buttons : x.kind = "approve"}, user \in {"300", "900"},
              s \in { <<"ok", "ok", "ok">>, <<"neterr", "ok", "ok">>, <<"ok", "neterr", "ok">>,
                      <<"ok", "timeout", "ok">>, <<"ok", "rejected", "ok">>,
                      <<"ok", "ok", "timeout">> } :
              approve(b, user, TARIFFS[b.code],
                      UI("get_clients_list", [email |-> S(b.email)], s[1]).out, s[2], s[3])

\* a tariff button of the administrator's keyboard (lines 786-865)
AdminPlanPick ==
    LET \* lines 843-847: the telegram id inside a login user_<tgid>_*
        tg_id_from_email(email) == IF email = "user_300_a" THEN "300" ELSE "none"
        bound(f, email, v) ==
            IF tg_id_from_email(email) = "none" THEN f ELSE (tg_id_from_email(email) :> v) @@ f
        create(b, user, code, r) ==
            IF r.out.exc # "none"
            THEN Handled(r.panel, user_emails, paid_users,
                         [bot EXCEPT !.created = @ \cup IF r.panel # panel
                                                        THEN {<<tg_id_from_email(b.email), b.email>>}
                                                        ELSE {},
                                     !.run = Ran("admin_plan_pick_callback", user,
                                                 <<Msg(user, "create_failed")>>)],
                         <<"list">> \o r.reqs)
            ELSE Handled(r.panel, bound(user_emails, b.email, b.email),
                         bound(paid_users, b.email,
                               [tariff |-> code, traffic_limit |-> TARIFFS[code].traffic_limit]),
                         [bot EXCEPT !.created = @ \cup {<<tg_id_from_email(b.email), b.email>>},
                                     !.run = Ran("admin_plan_pick_callback", user,
                                                 <<Msg(user, "key_created")>>)],
                         <<"list">> \o r.reqs)
        pick(b, user, code, existing, link, s2) ==
            IF ~is_admin(user)
            THEN Handled(panel, user_emails, paid_users,
                         [bot EXCEPT !.run = Ran("admin_plan_pick_callback", user,
                                                 <<Msg(user, "unavailable")>>)], <<>>)
            ELSE IF existing.exc # "none"
            THEN Handled(panel, user_emails, paid_users,
                         [bot EXCEPT !.run = Ran("admin_plan_pick_callback", user,
                                                 <<Msg(user, "error")>>)], <<"list">>)
            ELSE IF FirstMatch(existing.v.xs, S(b.email), 1) # 0
            THEN Handled(panel, user_emails, paid_users,
                         [bot EXCEPT !.run = Ran("admin_plan_pick_callback", user,
                                                 <<Msg(user, IF link.exc = "none" THEN "link"
                                                             ELSE "exists")>>)],
                         <<"list", "list">>)
            ELSE create(b, user, code,
                        UI("add_client",
                           [ email |-> S(b.email),
                             client |-> client_obj(PyStr(<<TWord("uuid-")>> \o S(b.email).s),
                                                   S(b.email), 2, TARIFFS[code].traffic_limit,
                                                   I(bot.now + 60 * TARIFFS[code].months),
                                                   TARIFFS[code].flow) ],
                           s2))
    IN  /\ bot.UI = "ready"
        /\ \E b \in {x \in bot.buttons : x.kind = "admin_plan"}, user \in {"300", "900"},
              code \in {"unlimited_1"},
              s \in { <<"ok", "ok">>, <<"neterr", "ok">>, <<"ok", "neterr">>,
                      <<"ok", "timeout">>, <<"ok", "rejected">> } :
              pick(b, user, code,
                   UI("get_clients_list", [email |-> S(b.email)], s[1]).out,
                   UI("get_client_vless_link", [email |-> S(b.email)], s[1]).out, s[2])

\* a package button of the top-up keyboard that /add_traffic <login> showed
\* (lines 230-264, 579-638); the package is gb10
UserTopupPick ==
    LET limited(tgid, existing, email) ==
            \/ tgid \in DOMAIN paid_users /\ paid_users[tgid].traffic_limit # 0
            \/ /\ ~(tgid \in DOMAIN paid_users /\ paid_users[tgid].traffic_limit # 0)
               /\ existing.exc = "none"
               /\ FirstMatch(existing.v.xs, S(email), 1) # 0
               /\ Or(Get(existing.v.xs[FirstMatch(existing.v.xs, S(email), 1)], "totalGB"), I(0))
                     # I(0)
        pick(user, email, existing) ==
            IF limited(user, existing, email)
            THEN Handled(panel, user_emails, paid_users,
                         [bot EXCEPT !.buttons = @ \cup {Button("approve_topup", "gb10", user, email)},
                                     !.run = Ran("user_topup_pick_callback", user,
                                                 <<Msg(user, "topup_pay"), Msg("900", "topup_request")>>)],
                         <<>>)
            ELSE Handled(panel, user_emails, paid_users,
                         [bot EXCEPT !.run = Ran("user_topup_pick_callback", user,
                                                 <<Msg(user, "unlimited")>>)],
                         <<"list">>)
    IN  /\ bot.UI = "ready"
        /\ \E a \in { <<"100", "alice">>, <<"100", "bob">>, <<"100", "zed">> },
              s1 \in {"ok", "neterr"} :
              pick(a[1], a[2], UI("get_clients_list", [email |-> S(a[2])], s1).out)

\* the handler that tells the user before it knows the outcome
ApproveTopupEager ==
    /\ bot.UI = "ready"
    /\ \E b \in {x \in bot.buttons : x.kind = "approve_topup"}, user \in {"300", "900"},
          shape \in {"ok", "neterr", "rejected", "verifyerr"} :
          /\ is_admin(user)
          /\ UI("add_traffic", [email |-> S(b.email), add_gb |-> 10], shape).panel = panel
          /\ Handled(panel, user_emails, paid_users,
                     [bot EXCEPT !.run = Ran("approve_topup_callback", user,
                                             <<Msg(b.tgid, "topup_credited"),
                                               Msg(user, "topup_done")>>)],
                     UI("add_traffic", [email |-> S(b.email), add_gb |-> 10], shape).reqs)

\* "payment received, top up" pressed (lines 640-667, 103-111); a failure is
\* reported to the administrator with the text of the exception
ApproveTopup ==
    LET topup(b, user, r) ==
            IF ~is_admin(user)
            THEN Handled(panel, user_emails, paid_users,
                         [bot EXCEPT !.run = Ran("approve_topup_callback", user,
                                                 <<Msg(user, "unavailable")>>)], <<>>)
            ELSE /\ r.panel # panel => bot.approvals < MaxApprovals
                 /\ Handled(r.panel, user_emails, paid_users,
                            [bot EXCEPT !.approvals = IF r.panel # panel THEN @ + 1 ELSE @,
                                        !.run = Ran("approve_topup_callback", user,
                                                    IF r.out.exc # "none"
                                                    THEN <<Msg(user, r.out.exc)>>
                                                    ELSE <<Msg(b.tgid, "topup_credited"),
                                                           Msg(user, "topup_done")>>)],
                            r.reqs)
    IN  /\ bot.UI = "ready"
        /\ \E b \in {x \in bot.buttons : x.kind = "approve_topup"}, user \in {"300", "900"},
              shape \in {"ok", "neterr", "rejected", "verifyerr"} :
              topup(b, user, UI("add_traffic", [email |-> S(b.email), add_gb |-> 10], shape))

\* "activate key" pressed by the user the approval sent it to (lines 420-433)
ActivateKeyCallback ==
    /\ bot.UI = "ready"
    /\ Len(bot.job_queue) < MaxJobs
    /\ \E user \in DOMAIN user_emails :
          Handled(panel, user_emails, paid_users,
                  [bot EXCEPT !.job_queue =
                                  Append(@, [ name |-> "send_activated_key", when |-> 60,
                                              data |-> [ chat_id |-> user,
                                                         email |-> user_emails[user] ] ]),
                              !.run = Ran("activate_key_callback", user,
                                          <<Msg(user, "key_soon")>>)],
                  <<>>)

\* the job queue runs the job that is due: send_activated_key (lines 435-447)
\* or retry_activate_key (449-470)
RunJob ==
    LET vless(link) == link.exc = "none" /\ Truthy(link.v) /\ link.v.s[1] = TWord("vless://")
        run(job, link) ==
            CASE link.exc # "none" ->
                    \* the text carries the exception
                    [bot EXCEPT !.job_queue = Tail(@),
                                !.run = Ran(job.name, "none", <<Msg(job.data.chat_id, link.exc)>>)]
              [] vless(link) ->
                    [bot EXCEPT !.job_queue = Tail(@),
                                !.run = Ran(job.name, "none", <<Msg(job.data.chat_id, "key_ready")>>)]
              [] job.name = "retry_activate_key" /\ job.data.attempt < 2 ->
                    [bot EXCEPT !.job_queue =
                                    Append(Tail(@), [ name |-> "retry_activate_key", when |-> 30,
                                                      data |-> [job.data EXCEPT !.attempt = @ + 1] ]),
                                !.run = Ran(job.name, "none", <<Msg(job.data.chat_id, "retrying")>>)]
              [] OTHER ->
                    [bot EXCEPT !.job_queue = Tail(@),
                                !.run = Ran(job.name, "none", <<Msg(job.data.chat_id, "not_ready")>>)]
    IN  /\ bot.UI = "ready"
        /\ bot.job_queue # <<>>
        /\ \E shape \in {"ok", "timeout", "neterr"} :
              Handled(panel, user_emails, paid_users,
                      run(bot.job_queue[1],
                          UI("get_client_vless_link", [email |-> S(bot.job_queue[1].data.email)],
                             shape).out),
                      <<"list">>)

NextBot ==
    \/ Login
    \/ AddKey
    \/ UserPlanPick
    \/ ApprovePayment
    \/ AdminPlanPick

SpecBot == InitBot /\ [][NextBot]_vars

THRESHOLDS_DAYS == {15, 7, 3, 1}

\* one client of the loop that sends and records although the threshold is in
\* sent_list
remind_again(c, st, now, delivered) ==
    LET email == Get(c, "email")
        expiry_ms == Or(Or(Get(c, "expiryTime"), Get(c, "expiry_time")), I(0))
        days_left == (expiry_ms.n.lo \div 2) - (now \div 2)
        sent_list == IF email \in DOMAIN st.reminders THEN st.reminders[email] ELSE <<>>
        chats == {uid \in DOMAIN user_emails : S(user_emails[uid]) = email}
    IN  IF ~Truthy(email) \/ ~Truthy(expiry_ms) \/ days_left \notin THRESHOLDS_DAYS
           \/ chats = {} \/ ~delivered
        THEN st
        ELSE [ reminders |-> (email :> Append(sent_list, days_left)) @@ st.reminders,
               reminded |-> Append(st.reminded, <<email, days_left>>),
               messages |-> Append(st.messages, Msg(CHOOSE uid \in chats : TRUE, "expires_soon")) ]

\* one client c of reminder_job's loop (lines 881-916) at time now, from the
\* reminders, the reminders delivered so far and the messages of this run;
\* delivered: send_message does not raise
remind(c, st, now, delivered) ==
    LET email == Get(c, "email")
        expiry_ms == Or(Or(Get(c, "expiryTime"), Get(c, "expiry_time")), I(0))
        \* the dates of expiry and of now, a day being two half days
        days_left == (expiry_ms.n.lo \div 2) - (now \div 2)
        sent_list == IF email \in DOMAIN st.reminders THEN st.reminders[email] ELSE <<>>
        \* email_to_chat (line 874)
        chats == {uid \in DOMAIN user_emails : S(user_emails[uid]) = email}
    IN  IF ~Truthy(email) \/ ~Truthy(expiry_ms) THEN st
        ELSE IF days_left \notin THRESHOLDS_DAYS THEN st
        ELSE IF \E k \in DOMAIN sent_list : sent_list[k] = days_left THEN st
        ELSE IF chats = {} THEN st
        ELSE IF ~delivered THEN st
        ELSE [ reminders |-> (email :> Append(sent_list, days_left)) @@ st.reminders,
               reminded |-> Append(st.reminded, <<email, days_left>>),
               messages |-> Append(st.messages, Msg(CHOOSE uid \in chats : TRUE, "expires_soon")) ]

\* for c in clients, from client k on
RECURSIVE reminder_loop(_, _, _, _, _)
reminder_loop(clients, k, st, now, deliveries) ==
    IF k > Len(clients) THEN st
    ELSE reminder_loop(clients, k + 1, remind(clients[k], st, now, k \in deliveries), now,
                       deliveries)

\* the daily job (lines 871-916, scheduled at 965)
ReminderJob ==
    LET reminder_job(clients, deliveries) ==
            IF clients.exc # "none"
            THEN Handled(panel, user_emails, paid_users,
                         [bot EXCEPT !.run = Ran("reminder_job", "none", <<>>)], <<"list">>)
            ELSE Handled(panel, user_emails, paid_users,
                         [bot EXCEPT
                            !.reminders =
                                reminder_loop(clients.v.xs, 1,
                                              [reminders |-> bot.reminders, reminded |-> bot.reminded,
                                               messages |-> <<>>],
                                              bot.now, deliveries).reminders,
                            !.reminded =
                                reminder_loop(clients.v.xs, 1,
                                              [reminders |-> bot.reminders, reminded |-> bot.reminded,
                                               messages |-> <<>>],
                                              bot.now, deliveries).reminded,
                            !.run =
                                Ran("reminder_job", "none",
                                    reminder_loop(clients.v.xs, 1,
                                                  [reminders |-> bot.reminders,
                                                   reminded |-> bot.reminded, messages |-> <<>>],
                                                  bot.now, deliveries).messages)],
                         <<"list">>)
    IN  /\ bot.UI = "ready"
        /\ \E shape \in {"ok", "neterr"}, deliveries \in {{}, 1..Len(panel[1].clients)} :
              reminder_job(UI("get_clients_list", [email |-> S("")], shape).out, deliveries)

\* half a day passes
Tick ==
    /\ bot.now < MaxNow
    /\ bot' = [bot EXCEPT !.now = @ + 1]
    /\ UNCHANGED << panel, pc, call, ret, giRes, plan, pathIdx, last_res, polls, result,
                    reqLog, lastResp, panel0, calls, probe, peer, user_emails, paid_users >>

\* the job queue of the running bot: the daily reminder and the jobs that the
\* "activate key" buttons of alice's and bob's chats schedule
InitJobs == BotStart(Bot0, <<Req("login", "login", PyNone, TRUE)>>)

NextJobs ==
    \/ ActivateKeyCallback
    \/ RunJob
    \/ ReminderJob
    \/ Tick

SpecJobs == InitJobs /\ [][NextJobs]_vars

\* the bot after user 300 asked for a login (a new one, or the login alice of
\* user 100: add_key takes any) and picked a tariff, and the administrator
\* asked for user_300_a: the keyboards are out, nothing is approved yet
InitAdmin ==
    \E login \in {"u1", "alice"} :
        BotStart([Bot0 EXCEPT !.preferred_logins = "300" :> login,
                              !.buttons = { Button("user_plan", "", "300", login),
                                            Button("approve", "limited_1", "300", login),
                                            Button("admin_plan", "", "", "user_300_a") },
                              !.run = Ran("add_key", "900", <<Msg("900", "tariffs")>>)],
                 <<Req("list", "panel/inbound", PyNone, TRUE)>>)

\* the handlers behind the administrator's buttons, and the users' top-up
\* requests
NextAdmin ==
    \/ ApprovePayment
    \/ AdminPlanPick
    \/ UserTopupPick
    \/ ApproveTopup

SpecAdmin == InitAdmin /\ [][NextAdmin]_vars

(***************************************************************************)
(* Vocabulary of the properties.                                            *)
(***************************************************************************)
Done(op) == pc = "idle" /\ call.op = op

\* the panel's own view: index of the first client with exactly this email
TargetIndex(clients, email) ==
    LET hits == {j \in 1..Len(clients) : Get(clients[j], "email") = email}
    IN  IF hits = {} THEN 0 ELSE CHOOSE j \in hits : \A h \in hits : j <= h

Sent(kind) == SelectSeq(reqLog, LAMBDA q : q.kind = kind)

\* the addressed client, as the panel held it when the call began
Target0 ==
    LET i == PanelIndex(panel0, call.inbound_id)
    IN  panel0[i].clients[TargetIndex(panel0[i].clients, call.email)]

HasTarget0 ==
    /\ PanelIndex(panel0, call.inbound_id) # 0
    /\ TargetIndex(panel0[PanelIndex(panel0, call.inbound_id)].clients, call.email) # 0

TargetUnlimited0 == HasTarget0 /\ Get(Target0, "totalGB") \in {I(0), PyNone}

\* get_inbound handed the caller the inbound as the panel held it
ReadInbound0 ==
    /\ PanelIndex(panel0, call.inbound_id) # 0
    /\ giRes = Return(InboundWire(panel0[PanelIndex(panel0, call.inbound_id)]))

(***************************************************************************)
(* C1: add_traffic on a client whose totalGB is 0 never sends an update     *)
(* request and leaves the panel as it was; whenever its get_inbound         *)
(* returned the inbound, the call ends in the "unlimited plan" error.       *)
(***************************************************************************)
C1_UnlimitedRejected ==
    (call.op = "add_traffic" /\ TargetUnlimited0)
        => /\ Sent("update") = <<>>
           /\ panel = panel0
           /\ pc = "idle" => result.exc # "none"
           /\ (pc = "idle" /\ ReadInbound0) => result.exc = "Unlimited"

C1_Witness ==
    /\ Done("add_traffic")
    /\ TargetUnlimited0
    /\ ReadInbound0
    /\ result.exc = "Unlimited"

(***************************************************************************)
(* C2: a successful add_traffic(g) on a client with ceiling N > 0 leaves    *)
(* the panel's client at N + g * 2^30, and a read of the inbound by         *)
(* get_clients_list (the verification read of the call, or any read of the  *)
(* panel's inbound afterwards) returns that value for the client.           *)
(***************************************************************************)
Raised(n, g) == PyInt([hi |-> n.hi + g, lo |-> n.lo])

C2_AfterUpdate(i) ==
    LET N == Get(Target0, "totalGB")
        want == Raised(N.n, call.add_gb)
        read == get_clients_list(Return(InboundWire(panel[i])))
    IN  /\ isinstance(N, "int") /\ ~NumIsZero(N.n)
        /\ Get(panel[i].clients[TargetIndex(panel[i].clients, call.email)], "totalGB") = want
        /\ read.exc = "none"
        /\ Get(read.v.xs[TargetIndex(read.v.xs, call.email)], "totalGB") = want

C2_VerificationRead(i) ==
    LET read == get_clients_list(giRes)
    IN  giRes = Return(InboundWire(panel[i]))
           => /\ read.exc = "none"
              /\ Get(read.v.xs[TargetIndex(read.v.xs, call.email)], "totalGB")
                    = Raised(Get(Target0, "totalGB").n, call.add_gb)

C2_NewCeiling ==
    /\ (Done("add_traffic") /\ result = Return(PyBool(TRUE)))
          => /\ HasTarget0
             /\ PanelIndex(panel, call.inbound_id) # 0
             /\ C2_AfterUpdate(PanelIndex(panel, call.inbound_id))
    /\ (call.op = "add_traffic" /\ pc = "at_verify")
          => /\ HasTarget0
             /\ PanelIndex(panel, call.inbound_id) # 0
             /\ C2_VerificationRead(PanelIndex(panel, call.inbound_id))

C2_Witness ==
    /\ Done("add_traffic")
    /\ result = Return(PyBool(TRUE))
    /\ HasTarget0
    /\ Get(Target0, "totalGB") = PyInt(Num(1, 7))
    /\ call.add_gb = 2
    /\ giRes = Return(InboundWire(panel[PanelIndex(panel, call.inbound_id)]))

(***************************************************************************)
(* C3 (as claimed): add_client for an email the inbound already holds sends *)
(* no create request, and the client list never holds two clients with one  *)
(* email.                                                                   *)
(***************************************************************************)
NoDuplicateEmails(p) ==
    \A i \in 1..Len(p) :
       \A j, k \in 1..Len(p[i].clients) :
          Get(p[i].clients[j], "email") = Get(p[i].clients[k], "email") => j = k

C3_NoDuplicateClient ==
    /\ (call.op = "add_client" /\ HasTarget0) => Sent("create") = <<>>
    /\ NoDuplicateEmails(panel)

(***************************************************************************)
(* C4 (as claimed): the update request of add_traffic / update_client       *)
(* carries every field of the inbound as it was read, with the value read   *)
(* (absent fields stay absent), settings excepted; so the panel holds the   *)
(* same non-settings fields after the write as before it.                   *)
(***************************************************************************)
EchoesInbound(inbound, payload) ==
    /\ \A key \in DOMAIN inbound.f \ {"settings"} :
          key \in DOMAIN payload.f /\ payload.f[key] = inbound.f[key]
    /\ \A key \in DOMAIN payload.f \ {"settings"} : key \in DOMAIN inbound.f

C4_EchoesAllFields ==
    (call.op \in {"add_traffic", "update_client"} /\ Sent("update") # <<>>)
        => /\ EchoesInbound(plan.inbound, Sent("update")[1].body)
           /\ \A i \in 1..Len(panel0) :
                 /\ i <= Len(panel)
                 /\ panel[i].f = panel0[i].f
                 /\ panel[i].srest = panel0[i].srest

(***************************************************************************)
(* C5: what add_traffic / update_client encode into the inbound's settings  *)
(* decodes, by get_clients_list, to the very client list that was encoded   *)
(* (same order, same attributes), and the other keys of settings are the    *)
(* ones that were read.                                                     *)
(***************************************************************************)
Encoded == SetItem(plan.inbound, "settings", plan.payload.f["settings"])

C5_RoundTrip ==
    (call.op \in {"add_traffic", "update_client"} /\ plan.exc = "none" /\ plan.payload # EmptyDict)
        => /\ isinstance(plan.payload.f["settings"], "str")
           /\ get_clients_list(Return(Encoded)) = Return(PyList(plan.clients))
           /\ json_loads(plan.payload.f["settings"]).ok
           /\ Without(json_loads(plan.payload.f["settings"]).v.f, "clients")
                 = Without(decode_settings(plan.inbound).v.f, "clients")
           /\ (pc = "idle" /\ result = Return(PyBool(TRUE)) /\ call.op = "update_client")
                 => LET i == PanelIndex(panel, call.inbound_id)
                    IN  /\ panel[i].clients = plan.clients
                        /\ panel[i].srest = panel0[i].srest

C5_Witness ==
    /\ Done("update_client")
    /\ result = Return(PyBool(TRUE))
    /\ Len(plan.clients) >= 2
    /\ DOMAIN decode_settings(plan.inbound).v.f # {"clients"}
    /\ plan.clients # panel0[PanelIndex(panel0, call.inbound_id)].clients

(***************************************************************************)
(* C6: when the list holds no inbound with the id and neither direct GET    *)
(* yields a usable object, get_inbound returns {}; add_traffic and          *)
(* update_client then raise "inbound not found" and send no update.         *)
(***************************************************************************)
LookupExhausted ==
    /\ Len(reqLog) >= 3
    /\ reqLog[1].kind = "list" /\ reqLog[1].ok
    /\ reqLog[2].kind = "get" /\ ~reqLog[2].ok
    /\ reqLog[3].kind = "get" /\ ~reqLog[3].ok

C6_ExhaustedIsNotFound ==
    (call.op \in {"get_inbound", "add_traffic", "update_client"} /\ LookupExhausted)
        => /\ Sent("update") = <<>>
           /\ panel = panel0
           /\ pc # "idle" => (pc = ret /\ giRes = Return(EmptyDict))
           /\ Done("get_inbound") => result = Return(EmptyDict)
           /\ (Done("add_traffic") \/ Done("update_client"))
                 => result = Raise("InboundNotFound")

C6_Witness ==
    /\ Done("add_traffic")
    /\ LookupExhausted
    /\ PanelIndex(panel0, call.inbound_id) = 0
    /\ result = Raise("InboundNotFound")

(***************************************************************************)
(* C7 (as claimed): whatever the list request and the two direct GETs do,   *)
(* get_inbound returns the matching inbound or {} and raises nothing.       *)
(***************************************************************************)
C7_NeverRaises ==
    Done("get_inbound")
        => /\ result.exc = "none"
           /\ \/ result.v = EmptyDict
              \/ /\ PanelIndex(panel, call.inbound_id) # 0
                 /\ result.v = InboundWire(panel[PanelIndex(panel, call.inbound_id)])

(***************************************************************************)
(* C8 (as claimed): get_inbounds_list returns obj for {success: true,       *)
(* obj: list}, the list for a bare list, and [] for every other response    *)
(* body, and raises for none of them.                                       *)
(***************************************************************************)
C8_Expected(res) ==
    IF isinstance(res, "obj") /\ Get(res, "success") = PyBool(TRUE)
          /\ isinstance(Get(res, "obj"), "list")
    THEN Get(res, "obj")
    ELSE IF isinstance(res, "list") THEN res
    ELSE EmptyList

C8_ToleratesEveryShape ==
    (Done("get_inbounds_list") /\ lastResp.exc = "none")
        => result = Return(C8_Expected(lastResp.v))

(***************************************************************************)
(* C9: the create requests of one add_client go to the four paths in their  *)
(* order, each only after every earlier one failed, none after a reported   *)
(* success, at most four; when none reports success the call fails with an  *)
(* error that carries the outcome of the last one.                          *)
(***************************************************************************)
OutcomeOf(r) ==
    IF r.exc = "none" THEN r.v
    ELSE PyDict([success |-> PyBool(FALSE), msg |-> S(r.exc)])

C9_CreateOrder ==
    call.op = "add_client"
        => LET creates == Sent("create")
               n == Len(creates)
           IN  /\ n <= Len(paths)
               /\ \A k \in 1..n : creates[k].path = paths[k]
               /\ \A k \in 1..n : k < n => ~creates[k].ok
               /\ pc = "ac_create" => (n = pathIdx - 1 /\ \A k \in 1..n : ~creates[k].ok)
               /\ (pc = "idle" /\ n > 0 /\ ~creates[n].ok)
                     => /\ n = Len(paths)
                        /\ result = RaiseWith("AddClientFailed", OutcomeOf(lastResp))
               /\ result.exc = "AddClientFailed" => (n = Len(paths) /\ ~creates[n].ok)

C9_Witness ==
    /\ Done("add_client")
    /\ Len(Sent("create")) = Len(paths)
    /\ result = RaiseWith("AddClientFailed", Rejected)

(***************************************************************************)
(* C10: add_client with an inbound id that is not among the ids of          *)
(* get_inbounds_list raises the not-found error naming the listed ids and   *)
(* sends no create request; the panel is unchanged.                         *)
(***************************************************************************)
Unlisted(l, inbound_id) ==
    /\ l.exc = "none"
    /\ isinstance(l.v, "list")
    /\ \A k \in 1..Len(l.v.xs) :
          /\ isinstance(l.v.xs[k], "obj")
          /\ str(Get(l.v.xs[k], "id")) # str(inbound_id)

C10_UnknownInbound ==
    call.op = "add_client"
        => /\ (pc = "idle" /\ Len(reqLog) = 1
                  /\ Unlisted(get_inbounds_list(lastResp), call.inbound_id))
                 => /\ result = RaiseWith("InboundNotFound",
                                          PyList(IdsOf(get_inbounds_list(lastResp).v.xs)))
           /\ result.exc = "InboundNotFound"
                 => /\ Sent("create") = <<>>
                    /\ panel = panel0
           /\ (pc = "ac_create" \/ Sent("create") # <<>>)
                 => PanelIndex(panel0, call.inbound_id) # 0

C10_Witness ==
    /\ Done("add_client")
    /\ PanelIndex(panel0, call.inbound_id) = 0
    /\ result = RaiseWith("InboundNotFound", PyList(<<I(1), I(2)>>))

(***************************************************************************)
(* C11: once a create request of add_client has reported success, the call  *)
(* only polls for the link: no step of it sends another create request or   *)
(* changes the panel, and it ends with the link or with an error of the     *)
(* link resolution, never with the create failure.                          *)
(***************************************************************************)
CreateReported == \E k \in 1..Len(Sent("create")) : Sent("create")[k].ok

C11_OnlyPollsAfterCreate ==
    [][ (call.op = "add_client" /\ pc # "idle" /\ CreateReported)
           => /\ Sent("create")' = Sent("create")
              /\ panel' = panel
              /\ pc' \in {"gi_list", "gi_get1", "gi_get2", "poll_ret", "idle"}
              /\ pc' = "idle"
                    => \/ result'.exc = "none" /\ isinstance(result'.v, "str")
                       \/ result'.exc \notin {"none", "AddClientFailed"} ]_vars

C11_Witness ==
    /\ Done("add_client")
    /\ CreateReported
    /\ polls = MaxPolls
    /\ result = Raise("LookupError")

(***************************************************************************)
(* C12 (as claimed): get_client_vless_link polls get_inbound at least once, *)
(* polls again only after a poll that found the inbound empty or the client *)
(* absent, makes a bounded number of polls, and ends either with the link   *)
(* of the first poll that held a matching client with an identifier or,     *)
(* when no poll matched, with the not-found error.                          *)
(***************************************************************************)
LastPoll == poll_once(giRes, call.email)

C12_PollsUntilDeadline ==
    call.op = "get_client_vless_link"
        => /\ polls <= MaxPolls
           /\ Len(Sent("list")) <= MaxPolls
           /\ (pc = "gi_list" /\ polls > 0) => LastPoll.k = "retry"
           /\ pc = "idle"
                 => /\ Len(Sent("list")) >= 1
                    /\ \/ /\ LastPoll.k = "done"
                          /\ Truthy(LastPoll.v)
                          /\ result = Return(LastPoll.v)
                       \/ /\ LastPoll.k = "retry" \/ (LastPoll.k = "done" /\ ~Truthy(LastPoll.v))
                          /\ result = Raise("LookupError")

(***************************************************************************)
(* C13: when the poll of a link lookup read the inbound and the addressed   *)
(* client has neither an id nor a password, that poll ends the call with    *)
(* the not-found error: no retry is counted and no further request is sent, *)
(* whatever is left of the window.                                          *)
(***************************************************************************)
NoCredential0 ==
    /\ HasTarget0
    /\ Get(Target0, "id") = PyNone
    /\ Get(Target0, "password") = PyNone

C13_NoIdentifierFailsAtOnce ==
    [][ (call.op = "get_client_vless_link" /\ pc = "poll_ret" /\ ReadInbound0 /\ NoCredential0)
           => /\ pc' = "idle"
              /\ result' = Raise("LookupError")
              /\ reqLog' = reqLog
              /\ polls' = polls ]_vars

C13_Witness ==
    /\ Done("get_client_vless_link")
    /\ ReadInbound0
    /\ NoCredential0
    /\ polls = 0
    /\ Len(Sent("list")) = 1
    /\ result = Raise("LookupError")

(***************************************************************************)
(* The parts of a link, read back from its text.                            *)
(***************************************************************************)
IndexOf(ts, w) ==
    LET hits == {i \in 1..Len(ts) : ts[i] = TWord(w)}
    IN  IF hits = {} THEN 0 ELSE CHOOSE i \in hits : \A h \in hits : i <= h

After(ts, w) == SubSeq(ts, IndexOf(ts, w) + 1, Len(ts))
Between(ts, a, b) == SubSeq(ts, IndexOf(ts, a) + 1, IndexOf(ts, b) - 1)

RECURSIVE SplitAt(_, _)
SplitAt(ts, w) ==
    IF IndexOf(ts, w) = 0 THEN <<ts>>
    ELSE <<SubSeq(ts, 1, IndexOf(ts, w) - 1)>> \o SplitAt(After(ts, w), w)

Query(u) == SplitAt(Between(u, "?", "#"), "&")
Fragment(u) == After(u, "#")
ParamKeys == << "type=tcp", "security=reality", "pbk=", "fp=", "sni=", "sid=", "spx=%2F", "flow=" >>

LinkDone == probe.fn = "vless_link" /\ probe.out # Pending

(***************************************************************************)
(* C14: the link assembled for an inbound, a client and an email is the     *)
(* value of a function of them; its text is vless://..@..:..?..#.. whose    *)
(* query holds exactly the eight parameters type, security, pbk, fp, sni,   *)
(* sid, spx, flow in that order, and whose fragment is the email when the   *)
(* inbound has no remark or an empty one, and remark-email otherwise.       *)
(***************************************************************************)
C14_Tag(inbound, email) ==
    IF Get(inbound, "remark") \in {PyNone, PyStr(<<>>)} THEN email.s
    ELSE Get(inbound, "remark").s \o W("-") \o email.s

C14_FixedForm ==
    LinkDone
        => /\ probe.out = Return(vless_link(probe.arg.inbound, probe.arg.client, probe.arg.email))
           /\ probe.out.exc = "none"
           /\ isinstance(probe.out.v, "str")
                 => /\ Head(probe.out.v.s) = TWord("vless://")
                    /\ 0 < IndexOf(probe.out.v.s, "@")
                    /\ IndexOf(probe.out.v.s, "@") < IndexOf(probe.out.v.s, ":")
                    /\ IndexOf(probe.out.v.s, ":") < IndexOf(probe.out.v.s, "?")
                    /\ IndexOf(probe.out.v.s, "?") < IndexOf(probe.out.v.s, "#")
                    /\ Len(Query(probe.out.v.s)) = 8
                    /\ \A i \in 1..8 :
                          /\ Query(probe.out.v.s)[i] # <<>>
                          /\ Head(Query(probe.out.v.s)[i]) = TWord(ParamKeys[i])
                    /\ \A i \in {1, 2, 7} : Len(Query(probe.out.v.s)[i]) = 1
                    /\ Fragment(probe.out.v.s) = C14_Tag(probe.arg.inbound, probe.arg.email)

C14_Witness ==
    /\ LinkDone
    /\ isinstance(probe.out.v, "str")
    /\ probe.given.kind = "fields"
    /\ probe.given.remark = "set"
    /\ probe.given.sid = "empty"
    /\ Fragment(probe.out.v.s) = W("srv1") \o W("-") \o W("alice")

(***************************************************************************)
(* C15: every part of the link is chosen by a fixed precedence, for every   *)
(* combination of fields the inbound and the client carry: credential id,   *)
(* else password (no link without either); pbk the outer publicKey, else    *)
(* the nested one, else empty; sid the first shortIds entry, else empty;    *)
(* sni the first serverNames entry, else the host; fp tlsSettings', else    *)
(* realitySettings', else chrome; flow the client's, else xtls-rprx-vision. *)
(* The inbound srv1 on port 443 with PK1, ab12, example.com, chrome and     *)
(* client alice gives the link of the end-to-end scenario.                  *)
(***************************************************************************)
ParamValue(u, i) == Tail(Query(u)[i])

C15_Chosen(g, u) ==
    /\ Between(u, "vless://", "@") = IF g.cred \in {"id", "both"} THEN W("id-a") ELSE W("pw-a")
    /\ Between(u, "@", ":") = Host
    /\ Between(u, ":", "?") = str(I(443))
    /\ ParamValue(u, 3) = CASE g.pbk \in {"outer", "both"} -> W("PK1")
                            [] g.pbk = "nested"            -> W("PK2")
                            [] OTHER                       -> <<>>
    /\ ParamValue(u, 4) = CASE g.fp \in {"tls", "both"} -> W("firefox")
                            [] g.fp = "rs"              -> W("safari")
                            [] OTHER                    -> W("chrome")
    /\ ParamValue(u, 5) = IF g.sni THEN W("example.com") ELSE Host
    /\ ParamValue(u, 6) = IF g.sid = "two" THEN W("ab12") ELSE <<>>
    /\ ParamValue(u, 8) = IF g.flow THEN W("xtls-rprx-direct") ELSE W("xtls-rprx-vision")

ScenarioLink ==
    W("vless://") \o W("id-a") \o W("@") \o Host \o W(":") \o <<TInt(Num(0, 443))>> \o W("?")
    \o W("type=tcp") \o W("&") \o W("security=reality")
    \o W("&") \o W("pbk=") \o W("PK1")
    \o W("&") \o W("fp=") \o W("chrome")
    \o W("&") \o W("sni=") \o W("example.com")
    \o W("&") \o W("sid=") \o W("ab12")
    \o W("&") \o W("spx=%2F")
    \o W("&") \o W("flow=") \o W("xtls-rprx-vision")
    \o W("#") \o W("srv1") \o W("-") \o W("alice")

C15_Precedence ==
    LinkDone
        => /\ probe.given.kind = "fields"
                 => IF probe.given.cred = "none"
                    THEN probe.out = Return(PyNone)
                    ELSE /\ probe.out.exc = "none"
                         /\ isinstance(probe.out.v, "str")
                         /\ C15_Chosen(probe.given, probe.out.v.s)
           /\ probe.given.kind = "scenario" => probe.out = Return(PyStr(ScenarioLink))

C15_Witness ==
    /\ LinkDone
    /\ probe.given.kind = "fields"
    /\ probe.given.cred = "both"
    /\ probe.given.pbk = "both"
    /\ probe.given.fp = "both"
    /\ probe.given.sid = "two"
    /\ probe.given.sni
    /\ ~probe.given.flow
    /\ isinstance(probe.out.v, "str")
    /\ ParamValue(probe.out.v.s, 3) = W("PK1")

C15_WitnessScenario ==
    /\ LinkDone
    /\ probe.given.kind = "scenario"
    /\ probe.out = Return(PyStr(ScenarioLink))

(***************************************************************************)
(* C16: _safe_json_load gives the object itself for an object and for its   *)
(* JSON text encoded once, twice or three times; for text that is not JSON, *)
(* for a fourth encoding and for anything that does not decode to an        *)
(* object it gives the empty object; it always returns.                     *)
(***************************************************************************)
C16_Normalizes ==
    (probe.fn = "_safe_json_load" /\ probe.out # Pending)
        => /\ probe.out.exc = "none"
           /\ probe.out.v = IF isinstance(probe.given.base, "obj") /\ probe.given.depth <= 3
                            THEN probe.given.base
                            ELSE EmptyDict

C16_Witness ==
    /\ probe.fn = "_safe_json_load"
    /\ probe.given.depth = 3
    /\ probe.given.base = SettingsOf(InboundA)
    /\ isinstance(probe.arg, "str")
    /\ probe.out = Return(SettingsOf(InboundA))

C16_WitnessNotJson ==
    /\ probe.fn = "_safe_json_load"
    /\ probe.arg = S("unauthorized")
    /\ probe.out = Return(EmptyDict)

(***************************************************************************)
(* C17: add_traffic and update_client address the client whose email equals *)
(* the argument exactly.  When the inbound was read and holds no such       *)
(* client the call ends in the client-not-found error and no update request *)
(* is sent; an update request changes that client only; when the update     *)
(* request was answered and the answer does not report success, the call    *)
(* ends in the update error.                                                *)
(***************************************************************************)
Mutating == call.op \in {"add_traffic", "update_client"}

\* the update request was answered, and the answer does not report success
\* (the call ends in the step of that request)
UpdateRefused ==
    /\ Sent("update") # <<>>
    /\ ~Sent("update")[1].ok
    /\ lastResp.exc = "none"

C17_UpdateRefused ==
    (Mutating /\ pc = "idle" /\ UpdateRefused) => result.exc = "UpdateFailed"

C17_ExactMatch ==
    (Mutating /\ ReadInbound0)
        => /\ (pc = "idle" /\ ~HasTarget0)
                 => result = Raise("ClientNotFound") /\ Sent("update") = <<>>
           /\ Sent("update") # <<>>
                 => /\ HasTarget0
                    /\ \A j \in 1..Len(plan.clients) :
                          Get(plan.clients[j], "email") # call.email
                             => plan.clients[j]
                                  = panel0[PanelIndex(panel0, call.inbound_id)].clients[j]

C17_LocateOrFail == C17_ExactMatch /\ C17_UpdateRefused

(***************************************************************************)
(* C18: once the update request of add_traffic was answered with success,   *)
(* the call returns True, whatever the verification read gives.             *)
(***************************************************************************)
UpdateReported == Sent("update") # <<>> /\ Sent("update")[1].ok

C18_VerificationAdvisory ==
    (call.op = "add_traffic" /\ pc = "idle" /\ UpdateReported)
        => result = Return(PyBool(TRUE))

(***************************************************************************)
(* C19: nothing orders the read-modify-write cycles of two callers on one   *)
(* inbound.  Every update replaces the inbound's whole client list by the   *)
(* list its caller built from its own read, whatever the panel holds by     *)
(* then; so two calls can both report success while the panel keeps the     *)
(* change of one of them only.                                              *)
(***************************************************************************)
ClientsAt(p, id) == p[PanelIndex(p, id)].clients

\* the step in which the second caller's update is applied and acknowledged
PeerWrote == peer.pc = "write" /\ peer'.pc = "done" /\ peer'.result = Return(PyBool(TRUE))

\* the step in which the first caller's update request is sent
MainWrote == pc \in {"at_update", "uc_update"} /\ reqLog' # reqLog

C19_LastWriterWins ==
    [][ /\ PeerWrote
           => ClientsAt(panel', peer.call.inbound_id) = PeerPlan(peer.call, peer.read).clients
        /\ MainWrote
           => \/ panel' = panel
              \/ /\ giRes.exc = "none"
                 /\ plan' = IF call.op = "add_traffic"
                            THEN add_traffic_plan(giRes, call.inbound_id, call.email, call.add_gb)
                            ELSE update_client_plan(giRes, call.inbound_id, call.email,
                                                    call.total_gb, call.expiry_time_ms)
                 /\ ClientsAt(panel', call.inbound_id) = plan'.clients ]_vars

\* both calls returned success, and the ceiling add_traffic raised is back at
\* its old value
C19_Witness ==
    /\ Done("add_traffic")
    /\ result = Return(PyBool(TRUE))
    /\ peer.pc = "done"
    /\ peer.call.op = "update_client"
    /\ peer.result = Return(PyBool(TRUE))
    /\ HasTarget0
    /\ Get(ClientsAt(panel, call.inbound_id)[TargetIndex(ClientsAt(panel, call.inbound_id), call.email)],
           "totalGB") = Get(Target0, "totalGB")
    /\ Get(ClientsAt(panel, I(1))[TargetIndex(ClientsAt(panel, I(1)), S("bob"))],
           "expiryTime") = I(1000)

(***************************************************************************)
(* C20: no step of add_client, add_traffic, update_client or del_key takes  *)
(* an email out of an inbound's client list, and del_key changes the local  *)
(* mappings only: it leaves the panel alone and sends no request.           *)
(***************************************************************************)
\* (inbound id, email) of every client the panel holds
EmailsOf(p) ==
    UNION { { <<p[i].f["id"], Get(p[i].clients[j], "email")>> : j \in 1..Len(p[i].clients) } :
              i \in 1..Len(p) }

\* a step of del_key: a handler that ran without calling UIAPI
DelKeyStep == calls' = calls + 1 /\ pc' = "idle"

DelKeyLocal == DelKeyStep => panel' = panel /\ reqLog' = reqLog /\ peer' = peer

C20_NeverDeleted ==
    [][ EmailsOf(panel) \subseteq EmailsOf(panel') /\ DelKeyLocal ]_vars

\* an update request built from a read that another caller's write has
\* since overtaken
StaleWrite ==
    \/ /\ peer.pc = "write"
       /\ peer'.pc = "done"
       /\ peer.read # InboundWire(panel[PanelIndex(panel, peer.call.inbound_id)])
    \/ /\ MainWrote
       /\ PanelIndex(panel, call.inbound_id) # 0
       /\ giRes.v # InboundWire(panel[PanelIndex(panel, call.inbound_id)])

\* C20, amended: an email leaves a client list only in a stale write, and
\* del_key changes the local mappings only
C20_DeletedOnlyByStaleWrite ==
    [][ /\ EmailsOf(panel) \subseteq EmailsOf(panel') \/ StaleWrite
        /\ DelKeyLocal ]_vars

\* del_key dropped alice's bindings, the second caller's update_client was
\* applied, and the inbound holds every client it held
C20_Witness ==
    /\ "100" \notin DOMAIN user_emails
    /\ "100" \notin DOMAIN paid_users
    /\ "200" \in DOMAIN user_emails
    /\ calls = 1
    /\ pc = "idle"
    /\ reqLog = <<>>
    /\ peer.pc = "done"
    /\ peer.result = Return(PyBool(TRUE))
    /\ EmailsOf(<<InboundA, InboundOther>>) \subseteq EmailsOf(panel)
    /\ Get(ClientsAt(panel, I(1))[TargetIndex(ClientsAt(panel, I(1)), S("bob"))],
           "expiryTime") = I(1000)

(***************************************************************************)
(* C21: whenever add_client, add_traffic or update_client ends in an error, *)
(* the panel is as it was when the call began.                              *)
(***************************************************************************)
Failed == pc = "idle" /\ result.exc \notin {"none", "pending"}

C21_FailureLeavesPanel ==
    (call.op \in {"add_client", "add_traffic", "update_client"} /\ Failed)
        => panel = panel0


(***************************************************************************)
(* C23: within get_inbound the list request is first; the direct fetches    *)
(* are sent only when the list holds no inbound with the requested id, the  *)
(* path-parameter form before the query-parameter form; a first fetch that  *)
(* fails or gives nothing usable is followed by the second; the first       *)
(* usable non-empty object ends the lookup.                                 *)
(***************************************************************************)
DirectForm(k) ==
    IF k = 2 THEN Req("get", "panel/inbound/get/{id}", PyNone, FALSE)
    ELSE Req("get", "panel/inbound/get", PyDict([id |-> call.inbound_id]), FALSE)

C23_RequestOrder ==
    call.op \in {"get_inbound", "get_clients_list"}
        => /\ Len(reqLog) <= 3
           /\ pc \in {"gi_get1", "gi_get2", "gi_ret", "gcl_ret", "idle"} => reqLog # <<>>
           /\ reqLog # <<>> => /\ reqLog[1].kind = "list"
                               /\ reqLog[1].path = "panel/inbound/list"
           /\ \A k \in 2..Len(reqLog) :
                 /\ [reqLog[k] EXCEPT !.ok = FALSE] = DirectForm(k)
                 /\ Unlisted(lastResp, call.inbound_id)
                 /\ reqLog[k].ok => /\ k = Len(reqLog)
                                    /\ pc \notin {"gi_get1", "gi_get2"}
                                    /\ isinstance(giRes.v, "obj")
                                    /\ giRes.v # EmptyDict
           /\ (Len(reqLog) = 2 /\ ~reqLog[2].ok) => pc = "gi_get2"
           /\ pc = "gi_get1" => Len(reqLog) = 1
           /\ pc = "gi_get2" => Len(reqLog) = 2

\* the first fetch gave nothing usable and the second one found the inbound
C23_Witness ==
    /\ Done("get_inbound")
    /\ Len(reqLog) = 3
    /\ ~reqLog[2].ok
    /\ reqLog[3].ok
    /\ result.exc = "none"
    /\ result.v # EmptyDict

\* the list held the inbound and no direct fetch was sent
C23_WitnessListed ==
    /\ Done("get_inbound")
    /\ Len(reqLog) = 1
    /\ result.exc = "none"
    /\ isinstance(result.v, "obj")
    /\ result.v # EmptyDict


(***************************************************************************)
(* C24: the client list update_client writes back differs from the one it   *)
(* read only in the first client whose email equals the requested one: its  *)
(* totalGB is total_gb * 2^30, its expiryTime is the given value when one   *)
(* is given and as before otherwise; its other attributes, the other        *)
(* clients and their order are as read.  add_traffic changes only that      *)
(* client's totalGB.                                                        *)
(***************************************************************************)
PlanApplied == probe.fn \in {"update_client", "add_traffic"} /\ probe.out # Pending

\* the client list in the payload of the update request
Written == Get(json_loads(probe.out.v.payload.f["settings"]).v, "clients").xs

SetsExpiry == probe.fn = "update_client" /\ probe.arg.call.expiry_time_ms # PyNone

C24_ClientFrame(old, new) ==
    /\ isinstance(new, "obj")
    /\ Without(Without(new.f, "totalGB"), "expiryTime")
          = Without(Without(old.f, "totalGB"), "expiryTime")
    /\ "totalGB" \in DOMAIN new.f
    /\ new.f["totalGB"]
          = IF probe.fn = "update_client"
            THEN PyInt([hi |-> probe.arg.call.total_gb, lo |-> 0])
            ELSE Raised(old.f["totalGB"].n, probe.arg.call.add_gb)
    /\ IF SetsExpiry
       THEN /\ "expiryTime" \in DOMAIN new.f
            /\ new.f["expiryTime"] = probe.arg.call.expiry_time_ms
       ELSE /\ "expiryTime" \in DOMAIN new.f <=> "expiryTime" \in DOMAIN old.f
            /\ "expiryTime" \in DOMAIN old.f => new.f["expiryTime"] = old.f["expiryTime"]

C24_Frame ==
    PlanApplied
        => LET old == probe.given.clients
               i == TargetIndex(old, probe.arg.call.email)
           IN  /\ probe.out.v.exc = "none"
                     <=> /\ i # 0
                         /\ probe.fn = "add_traffic" => Get(old[i], "totalGB") # I(0)
               /\ probe.out.v.exc = "none"
                     => /\ Len(Written) = Len(old)
                        /\ \A j \in 1..Len(old) : j # i => Written[j] = old[j]
                        /\ C24_ClientFrame(old[i], Written[i])

\* update_client without an expiry on a login the inbound holds twice
C24_Witness ==
    /\ PlanApplied
    /\ probe.fn = "update_client"
    /\ probe.arg.call.email = S("alice")
    /\ probe.arg.call.total_gb = 3
    /\ ~SetsExpiry
    /\ probe.out.v.exc = "none"
    /\ Written[1] # probe.given.clients[1]
    /\ Written[3] = probe.given.clients[3]
    /\ Get(Written[1], "expiryTime") = I(0)


(***************************************************************************)
(* C25: a poll of the link resolution uses the first client in list order   *)
(* whose stored email equals the requested one after trimming and           *)
(* lowercasing both, and finds no client when there is none.                *)
(***************************************************************************)
\* trim(lower(w)) of the logins in use
Folded(w) ==
    CASE w \in {"alice", "Alice ", "ALICE"} -> "alice"
      [] w \in {"bob", " bob", " Bob "}     -> "bob"
      [] OTHER                              -> w

PollApplied == probe.fn = "poll_once" /\ probe.out # Pending

\* the clients whose stored email matches the requested one
Matching ==
    { j \in 1..Len(probe.given.clients) :
        /\ "email" \in DOMAIN probe.given.clients[j].f
        /\ Folded(probe.given.clients[j].f["email"].s[1].w) = Folded(probe.given.email) }

C25_FoldedFirstMatch ==
    PollApplied
        => /\ probe.out.v.exc = "none"
           /\ Matching = {} <=> probe.out.v.k = "retry"
           /\ Matching # {}
                 => /\ probe.out.v.k = "done"
                    /\ isinstance(probe.out.v.v, "str")
                    /\ \E j \in Matching :
                          /\ \A h \in Matching : j <= h
                          /\ <<probe.out.v.v.s[2]>> = probe.given.clients[j].f["id"].s

\* the request differs from the stored email in case and space, and an exact
\* match stands later in the list
C25_Witness ==
    /\ PollApplied
    /\ probe.given.email = "alice"
    /\ probe.given.clients = PollClients
    /\ probe.out.v.k = "done"
    /\ probe.out.v.v.s[2] = TWord("id-2")


(***************************************************************************)
(* C28 (as claimed): the polling inside add_client lasts up to its          *)
(* wait_seconds argument: its deadline is wait_seconds (at least one        *)
(* second) after the polling began.                                         *)
(***************************************************************************)
C28_WaitGovernsPolling ==
    (probe.fn = "add_client_deadline" /\ probe.out # Pending)
        => probe.out.v = I(probe.given.now
                             + (IF probe.given.wait_seconds > 1 THEN probe.given.wait_seconds
                                ELSE 1))


(***************************************************************************)
(* C26: the process has a UIAPI instance only after a login that set a     *)
(* cookie; a login answered without cookies ends the construction in the   *)
(* authentication error (RuntimeError "Login failed: no cookies set"); and *)
(* a request other than the login is sent only by a constructed instance,  *)
(* after its login request.                                                *)
(***************************************************************************)
C26_SessionAfterLogin ==
    /\ bot.UI = "ready" => bot.cookies # {}
    /\ bot.UI = "none" => reqLog = <<>>
    /\ (bot.UI # "none" /\ bot.run.handler = "UIAPI")
          => /\ Len(reqLog) = 1
             /\ reqLog[1].kind = "login"
             /\ (reqLog[1].ok /\ bot.cookies = {}) <=> bot.UI = "RuntimeError"
             /\ (reqLog[1].ok /\ bot.cookies # {}) <=> bot.UI = "ready"
    /\ (\E k \in DOMAIN reqLog : reqLog[k].kind # "login")
          => bot.UI = "ready" /\ bot.run.handler \notin {"none", "UIAPI"}

\* a handler sent panel requests through the instance that had logged in
C26_Witness ==
    /\ bot.UI = "ready"
    /\ bot.cookies # {}
    /\ \E k \in DOMAIN reqLog : reqLog[k].kind = "create"

\* the construction that failed for want of cookies
C26_WitnessNoCookies ==
    /\ bot.UI = "RuntimeError"
    /\ reqLog = <<Req("login", "login", PyNone, TRUE)>>

(***************************************************************************)
(* C27 (as claimed): at most one panel client is ever created on behalf of *)
(* one Telegram user id.                                                   *)
(***************************************************************************)
C27_OneKeyPerAccount ==
    \A a \in bot.created, b \in bot.created : a[1] = b[1] => a[2] = b[2]

\* two clients of one user, both created by approvals of that user's own
\* requests: no administrator's keyboard was ever sent
TwoKeysByRequest ==
    /\ {<<"300", "u1">>, <<"300", "user_300_a">>} \subseteq bot.created
    /\ \A b \in bot.buttons : b.kind # "admin_plan"
    /\ Len(panel[1].clients) = Len(BotInbound.clients) + 2

(***************************************************************************)
(* C30: a handler run changes the panel only when the user who invoked it  *)
(* is in ALLOWED_ADMINS, and a callback invoked by anyone else leaves the  *)
(* panel, user_emails, paid_users, the preferred logins and the reminders  *)
(* as they were.                                                           *)
(***************************************************************************)
C30_OnlyAdminsMutate ==
    [][ /\ panel' # panel => bot'.run.user \in ALLOWED_ADMINS
        /\ ( /\ bot'.run.handler \in { "approve_payment_callback", "approve_topup_callback",
                                       "admin_plan_pick_callback", "user_plan_pick_callback",
                                       "user_topup_pick_callback" }
             /\ bot'.run.user \notin ALLOWED_ADMINS )
            => /\ panel' = panel
               /\ user_emails' = user_emails
               /\ paid_users' = paid_users
               /\ bot'.preferred_logins = bot.preferred_logins
               /\ bot'.reminders = bot.reminders
               /\ bot'.created = bot.created ]_vars

\* the administrator's approvals have changed the panel, and user 300, who
\* pressed the same button afterwards, was turned away
C30_Witness ==
    /\ bot.run.handler = "approve_topup_callback"
    /\ bot.run.user = "300"
    /\ bot.run.messages = <<Msg("300", "unavailable")>>
    /\ bot.created # {}
    /\ bot.approvals > 0

\* the state the administrator's handlers start from is one the bot reaches
AdminStart == InitAdmin

(***************************************************************************)
(* C22 (as claimed): when the link resolution of a queued key delivery     *)
(* times out (LookupError), the job leaves a re-attempt queued for 30 s    *)
(* later in the same chat.                                                 *)
(***************************************************************************)
C22_TimeoutReschedules ==
    \A k \in DOMAIN bot.run.messages :
        ( /\ bot.run.handler \in {"send_activated_key", "retry_activate_key"}
          /\ bot.run.messages[k].text = "LookupError" )
        => \E j \in DOMAIN bot.job_queue :
              /\ bot.job_queue[j].name = "retry_activate_key"
              /\ bot.job_queue[j].when = 30
              /\ bot.job_queue[j].data.chat_id = bot.run.messages[k].to

(***************************************************************************)
(* C29: over the runs of reminder_job no (login, threshold) is reminded    *)
(* twice; a threshold stands in reminders only if its message was          *)
(* delivered; and every reminder delivered is for a threshold of           *)
(* THRESHOLDS_DAYS, for a login that a chat is mapped to and whose panel   *)
(* client has a non-zero expiryTime.                                       *)
(***************************************************************************)
C29_RemindedOnce ==
    /\ \A i \in DOMAIN bot.reminded, j \in DOMAIN bot.reminded :
           bot.reminded[i] = bot.reminded[j] => i = j
    /\ \A email \in DOMAIN bot.reminders : \A k \in DOMAIN bot.reminders[email] :
           \E i \in DOMAIN bot.reminded : bot.reminded[i] = <<email, bot.reminders[email][k]>>
    /\ \A i \in DOMAIN bot.reminded :
           /\ bot.reminded[i][2] \in THRESHOLDS_DAYS
           /\ \E uid \in DOMAIN user_emails : S(user_emails[uid]) = bot.reminded[i][1]
           /\ \E k \in DOMAIN panel[1].clients :
                 /\ Get(panel[1].clients[k], "email") = bot.reminded[i][1]
                 /\ Get(panel[1].clients[k], "expiryTime") \notin {PyNone, I(0)}
    /\ bot.run.handler = "reminder_job"
          => /\ Len(bot.run.messages) <= Len(bot.reminded)
             /\ \A k \in DOMAIN bot.run.messages :
                   bot.run.messages[k].to \in DOMAIN user_emails

\* alice was reminded three days and one day before the expiry, and the run
\* after that sent nothing, with carol's expiry a threshold away and unmapped
C29_Witness ==
    /\ bot.reminded = << <<S("alice"), 3>>, <<S("alice"), 1>> >>
    /\ bot.reminders = S("alice") :> <<3, 1>>
    /\ bot.run = Ran("reminder_job", "none", <<>>)
    /\ bot.now \div 2 = 2

(***************************************************************************)
(* C32 (as claimed): when a run of approve_payment_callback has created a  *)
(* client in the panel for the approved login, it has recorded             *)
(* user_emails[tgid] = login and paid_users[tgid].                         *)
(***************************************************************************)
C32_CreatedIsRecorded ==
    [][ bot'.run.handler = "approve_payment_callback"
        => \A a \in bot'.created \ bot.created :
              /\ a[1] \in DOMAIN user_emails'
              /\ user_emails'[a[1]] = a[2]
              /\ a[1] \in DOMAIN paid_users' ]_vars

(***************************************************************************)
(* C33: a run of approve_topup_callback sends the user the "credited"      *)
(* message only when the top-up returned without error, the panel having   *)
(* accepted the update of the client's ceiling; a run of the administrator *)
(* whose top-up failed sends the user nothing and sends the administrator  *)
(* the text of the error.                                                  *)
(***************************************************************************)
C33_CreditedAfterAccepted ==
    [][ bot'.run.handler = "approve_topup_callback"
        => /\ (\E k \in DOMAIN bot'.run.messages : bot'.run.messages[k].text = "topup_credited")
                => /\ bot'.run.user \in ALLOWED_ADMINS
                   /\ panel' # panel
                   /\ \E k \in DOMAIN reqLog' : reqLog'[k].kind = "update"
                   /\ \E i \in DOMAIN panel[1].clients :
                         /\ Get(panel[1].clients[i], "totalGB") # I(0)
                         /\ Get(panel'[1].clients[i], "totalGB").n
                               = NumAdd(Get(panel[1].clients[i], "totalGB").n, NumTimesGB(10))
           /\ (bot'.run.user \in ALLOWED_ADMINS /\ panel' = panel)
                => /\ Len(bot'.run.messages) = 1
                   /\ bot'.run.messages[1].to = bot'.run.user
                   /\ bot'.run.messages[1].text
                         \in {"Unlimited", "ClientNotFound", "UpdateFailed", "ConnectionError"}
           /\ \A k \in DOMAIN bot'.run.messages :
                 bot'.run.messages[k].to # bot'.run.user
                    => bot'.run.messages[k].text = "topup_credited" ]_vars

\* the administrator approved bob's package, bob's plan is unlimited: the
\* administrator alone was told
C33_Witness ==
    /\ bot.run = Ran("approve_topup_callback", "900", <<Msg("900", "Unlimited")>>)
    /\ \E b \in bot.buttons : b.kind = "approve_topup" /\ b.email = "bob"

C33_WitnessCredited ==
    /\ bot.run = Ran("approve_topup_callback", "900",
                     <<Msg("100", "topup_credited"), Msg("900", "topup_done")>>)
    /\ panel # <<BotInbound, InboundOther>>

(***************************************************************************)
(* C36 (as claimed): a renewal by approve_payment_callback leaves no       *)
(* client with an earlier expiryTime or a smaller traffic ceiling than it  *)
(* had, 0 standing for "never" and for "unlimited".                        *)
(***************************************************************************)
C36_RenewalNeverReduces ==
    [][ LET AtLeast(new, old) ==
                \/ NumIsZero(new)
                \/ /\ ~NumIsZero(old)
                   /\ (new.hi > old.hi \/ (new.hi = old.hi /\ new.lo >= old.lo))
            Of(c, key) == Or(Get(c, key), I(0)).n
        IN  (bot'.run.handler = "approve_payment_callback" /\ bot'.approvals > bot.approvals)
            => \A i \in DOMAIN panel[1].clients :
                  /\ AtLeast(Of(panel'[1].clients[i], "expiryTime"),
                             Of(panel[1].clients[i], "expiryTime"))
                  /\ AtLeast(Of(panel'[1].clients[i], "totalGB"),
                             Of(panel[1].clients[i], "totalGB")) ]_vars

(***************************************************************************)
(* C31 (as claimed): no two user ids of user_emails map to the same login. *)
(***************************************************************************)
C31_LoginHasOneUser ==
    \A u \in DOMAIN user_emails, v \in DOMAIN user_emails :
        user_emails[u] = user_emails[v] => u = v

(***************************************************************************)
(* C34 (as claimed): whatever its requests answer, one add_client call     *)
(* adds at most one client entry to the inbound.                           *)
(***************************************************************************)
C34_AtMostOneEntry ==
    call.op = "add_client"
        => \A i \in DOMAIN panel : Len(panel[i].clients) <= Len(panel0[i].clients) + 1

(***************************************************************************)
(* C35 (as claimed): on the same inbound and for the same email, the       *)
(* client whose link try_get_client_vless_link returns is the client that  *)
(* update_client modifies, and add_traffic does not report it missing.     *)
(***************************************************************************)
C35_SameClient ==
    PollApplied /\ probe.out.v.k = "done"
        => LET updated == update_client_plan(probe.arg.g, I(1), probe.arg.email, 3, PyNone)
           IN  /\ updated.exc = "none"
               /\ add_traffic_plan(probe.arg.g, I(1), probe.arg.email, 2).exc # "ClientNotFound"
               /\ \A j \in 1..Len(probe.given.clients) :
                      updated.clients[j] # probe.given.clients[j]
                          <=> j \in Matching /\ \A h \in Matching : j <= h

====
